---- MODULE Spec2Model ----
(***************************************************************************)
(* A model of pomelo-dns: the RR cache (src/cache.rs), the AAAA rule       *)
(* evaluation (src/config/mod.rs, src/config/resolution.rs) and the query  *)
(* pipeline of the handler (src/handler.rs).                               *)
(*                                                                         *)
(* The module holds several specifications over one set of variables.      *)
(* Each specification drives one component and leaves the variables of the *)
(* other components at their initial values.                               *)
(***************************************************************************)
EXTENDS Integers, Sequences, FiniteSets, TLC

(***************************************************************************)
(* Bounds of the model.                                                    *)
(***************************************************************************)
\* cache-size values tried: Cache::with_capacity(0..MaxCapacity)
MaxCapacity == 2
\* the clock (seconds since the epoch, scaled down) runs over 0..MaxNow
MaxNow == 2
\* record TTL fields are 0 or MaxTtl
MaxTtl == 2
\* the most records the cache holds, over all its keys
MaxRecs == 2
\* the longest rule list of a group
MaxRules == 2
\* the most answers in a forwarded response
MaxAnswers == 2
\* the most requests handled, each by its own Handler
MaxHandlers == 2
\* the permits of the shared semaphore, scaled down from 1024
MAX_CONNECTIONS == 2
\* the bits of an IPv4 address, scaled down from 32
V4Bits == 2
\* the bits of an IPv6 address, scaled down from 128
V6Bits == 3
\* the snapshots allocated in a run: the first and those of the reloads
MaxSnapshots == 2
\* the tasks that call access()
MaxReaders == 1
\* the tasks that evaluate a Pingable rule at the same time
MaxCheckers == 2
\* the entries the ping cache holds (455 in the program)
PingCacheSize == 1
\* the calls of ping_with_timeout that run at the same time
MaxPingers == 2
\* the sequence numbers given out in the runs with echo requests
MaxSeq == 2
\* the packets a raw socket holds before recv_from is called
MaxInbox == 2
\* std::process::id() of the run
ProcessId == 4660
\* the spans of the sequential layer
MaxSpans == 2
\* the events buffered in one span
MaxEvents == 2
\* the calls of DoT::resolve that run at the same time
MaxResolvers == 2
\* the streams the DoT pool holds for one target
MaxPool == 1
\* the stale pooled streams a DoT resolve tries before it gives up
MaxRetry == 3

Domains == {"example.com.", "www.example.com.", "other.org."}
RTypes == {"A", "AAAA"}
Ttls == {0, MaxTtl}

\* hickory_proto::rr::Record, reduced to the fields the cache reads
Records == [rtype : RTypes, ttl : Ttls]

None == "None"

VARIABLES
    cache,      \* Inner.0 : LruCache<String, Vec<Record>>, most recently used first
    capacity,   \* the capacity the cache was built with (0: disabled)
    now,        \* SystemTime::now() in seconds
    last,       \* the last cache operation and its arguments
    ret,        \* what the last Inner::get returned
    recent,     \* history: every key ever used, most recently used first
    config,     \* the configuration snapshot: AAAA rules per group, GeoIP reader
    group,      \* Handler.group of the request being filtered
    answers,    \* message.answers of the forwarded response
    original,   \* history: the answers as the upstream sent them
    tasks,      \* the tasks Handler::resolution spawned, one per answer
    completed,  \* history: the task indices in the order the tasks finished
    pingCache,  \* PING_CACHE : LruCache<IpAddr, bool>
    rpc,        \* where Handler::resolution stands
    handlers,   \* the Handler of each request in flight, and how far run() got
    limit_connections,  \* Semaphore: the permits available
    shutdown_signal,    \* CancellationToken::is_cancelled
    acceptors,          \* where UdpServer::run and TcpServer::run stand
    inflight,           \* per acceptor, the handler tasks running in its JoinSet
    abortedHandlers,    \* history: the handler tasks aborted before they finished
    join_set,           \* run_until_done's JoinSet: the finished tasks not yet joined
    signals,            \* where the SIGHUP/SIGTERM/USR1 task stands
    main,               \* where run_until_done stands
    capAtCancel,        \* history: both acceptors waited for a permit at cancellation
    build,              \* the build profile: overflow checks on (debug) or off (release)
    groupLine,          \* the value of a line of the [group] section, one range
    client,             \* the address of a client
    attributed,         \* what parse and attribute_group gave for that client
    ptr,                \* Config.ptr: the address of the published snapshot
    heap,               \* the Arc<Inner> allocations by address
    readers,            \* the tasks calling access()
    reloader,           \* the signal task's calls of reload()
    hosts,              \* Inner.hosts: the host entries of each group, in file order
    lookup,             \* a request at the hosts stage and what the stage gave
    server,             \* the upstream server text of the group, as tokens
    conn,               \* the resolver built for one forward and how far it got
    pool,               \* LIVE_STREAMS: the pooled streams of the DoT target
    exited,             \* the process has exited
    tcp,                \* one exchange on an accepted TCP stream
    checkers,           \* the calls of check_is_allow for a Pingable rule
    guard,              \* the checker that holds the lock of PING_CACHE, or 0
    lru,                \* PING_CACHE: the LruCache of address and verdict
    streams,            \* the TLS streams by identity: where each is and what its peer did
    live_streams,       \* LIVE_STREAMS: per target URL, the queue of pooled streams
    dots,               \* the calls of DoT::resolve and how far each got
    http,               \* Response::from_stream on one stream: what is left to read and the parser
    ACC_SEQ,            \* the sequence counter behind its mutex, and what it gave out last
    pingers,            \* the calls of ping_with_timeout: position, sequence number, socket
    semaphore,          \* limit_connections by permit: the permits free, and how permits came back
    runs,               \* UdpServer::run and TcpServer::run: the loop and its handler tasks
    published,          \* Config.ptr by generation: the snapshot that access() returns now
    requests,           \* the requests in flight: the stage, and the snapshot each stage read
    logger,             \* LogWriter and its task: the writers made, the channel, the map, the files
    logs                \* SequentialLogLayer.logs: per span, the buffered messages and is_error

cacheVars == <<cache, capacity, now, last, ret, recent>>
filterVars == <<config, group, answers, original, tasks, completed, pingCache, rpc>>
handlerVars == <<handlers>>
serverVars == <<limit_connections, shutdown_signal, acceptors, inflight,
                abortedHandlers, join_set, signals, main, capAtCancel>>
\* the components besides the cache, the filter and the handlers
groupVars == <<build, groupLine, client, attributed>>
sharedVars == <<ptr, heap, readers, reloader>>
hostVars == <<hosts, lookup>>
upVars == <<server, conn, pool, exited>>
tcpVars == <<tcp>>
pingVars == <<checkers, guard, lru>>
poolVars == <<streams, live_streams, dots>>
httpVars == <<http>>
icmpVars == <<ACC_SEQ, pingers>>
permitVars == <<semaphore, runs>>
stageVars == <<published, requests>>
logsVars == <<logger, logs>>
laterVars == <<hostVars, upVars, tcpVars, pingVars, poolVars, httpVars, icmpVars, permitVars, stageVars, logsVars>>
restVars == <<serverVars, groupVars, sharedVars, laterVars>>
vars == <<cacheVars, filterVars, handlerVars, restVars>>
\* what the actions of one component leave alone
notCache == <<filterVars, handlerVars, restVars>>
notFilter == <<cacheVars, handlerVars, restVars>>
notServer == <<cacheVars, filterVars, handlerVars, groupVars, sharedVars, laterVars>>
notGroup == <<cacheVars, filterVars, handlerVars, serverVars, sharedVars, laterVars>>
notShared == <<cacheVars, filterVars, handlerVars, groupVars, laterVars>>
earlierVars == <<cacheVars, filterVars, handlerVars, serverVars, groupVars, sharedVars>>
notHosts == <<upVars, tcpVars, pingVars, poolVars, httpVars, icmpVars, permitVars, stageVars, logsVars, earlierVars>>
notUp == <<hostVars, tcpVars, pingVars, poolVars, httpVars, icmpVars, permitVars, stageVars, logsVars, earlierVars>>
notTcp == <<hostVars, upVars, pingVars, poolVars, httpVars, icmpVars, permitVars, stageVars, logsVars, earlierVars>>
notPing == <<hostVars, upVars, tcpVars, poolVars, httpVars, icmpVars, permitVars, stageVars, logsVars, earlierVars>>
notPool == <<hostVars, upVars, tcpVars, pingVars, httpVars, icmpVars, permitVars, stageVars, logsVars, earlierVars>>
notHttp == <<hostVars, upVars, tcpVars, pingVars, poolVars, icmpVars, permitVars, stageVars, logsVars, earlierVars>>
notIcmp == <<hostVars, upVars, tcpVars, pingVars, poolVars, httpVars, permitVars, stageVars, logsVars, earlierVars>>
notPermit == <<hostVars, upVars, tcpVars, pingVars, poolVars, httpVars, icmpVars, stageVars, logsVars, earlierVars>>
notStage == <<hostVars, upVars, tcpVars, pingVars, poolVars, httpVars, icmpVars, permitVars, logsVars, earlierVars>>
notLogs == <<hostVars, upVars, tcpVars, pingVars, poolVars, httpVars, icmpVars, permitVars, stageVars, earlierVars>>

(***************************************************************************)
(* lru::LruCache as src/cache.rs uses it.  The cache is a sequence of      *)
(* [key, val] entries, the most recently used first.                       *)
(***************************************************************************)
Entry(k, v) == [key |-> k, val |-> v]

Keys(c) == {c[i].key : i \in 1..Len(c)}

\* LruCache::contains: no effect on recency
LruContains(c, k) == k \in Keys(c)

\* LruCache::peek
LruVal(c, k) == (CHOOSE e \in {c[i] : i \in 1..Len(c)} : e.key = k).val

\* LruCache::pop
LruPop(c, k) == SelectSeq(c, LAMBDA e : e.key # k)

\* LruCache::get_mut followed by a write of v through the reference:
\* the entry moves to the front
LruGetMut(c, k, v) == <<Entry(k, v)>> \o LruPop(c, k)

\* an eviction of the most recently used entry instead
LruEvictMostRecent(c) == SubSeq(c, 2, Len(c))

\* the entry LruCache::put drops when the cache is full
LruEvict(c) == SubSeq(c, 1, Len(c) - 1)

\* LruCache::put
LruPut(c, cap, k, v) ==
    IF LruContains(c, k) THEN LruGetMut(c, k, v)
    ELSE IF Len(c) >= cap THEN <<Entry(k, v)>> \o LruEvict(c)
    ELSE <<Entry(k, v)>> \o c

\* Inner::clean_expired with the clock reading t
clean_expired(rrs, t) == SelectSeq(rrs, LAMBDA rr : rr.ttl <= t)

\* Inner::put
Inner_put(c, cap, domain, rrs, t) ==
    IF LruContains(c, domain)
    THEN LruGetMut(c, domain, clean_expired(LruVal(c, domain), t) \o rrs)
    ELSE LruPut(c, cap, domain, rrs)

\* Inner::get: the cache afterwards and the value returned
Inner_get(c, domain, rtype, t) ==
    IF ~LruContains(c, domain) THEN [cache |-> c, ret |-> None]
    ELSE LET rrs == clean_expired(LruVal(c, domain), t)
         IN  IF rrs = <<>>
             THEN [cache |-> LruPop(c, domain), ret |-> None]
             ELSE [cache |-> LruGetMut(c, domain, rrs),
                   ret |-> SelectSeq(rrs, LAMBDA rr : rr.rtype = rtype)]

RECURSIVE NumRecs(_)
\* the number of records held, over all keys
NumRecs(c) == IF c = <<>> THEN 0 ELSE Len(c[1].val) + NumRecs(Tail(c))

\* history: k becomes the most recently used key
Touch(r, k) == <<k>> \o SelectSeq(r, LAMBDA x : x # k)

\* a call of Inner::put by a holder of the cache's lock
CachePut(domain, rrs) ==
    /\ capacity > 0
    /\ NumRecs(Inner_put(cache, capacity, domain, rrs, now)) <= MaxRecs
    /\ cache' = Inner_put(cache, capacity, domain, rrs, now)
    /\ last' = [op |-> "put", domain |-> domain, rtype |-> None, rrs |-> rrs]
    /\ recent' = Touch(recent, domain)
    /\ ret' = None
    /\ UNCHANGED <<capacity, now, notCache>>

\* a call of Inner::get by a holder of the cache's lock
CacheGet(domain, rtype) ==
    /\ capacity > 0
    /\ cache' = Inner_get(cache, domain, rtype, now).cache
    /\ ret' = Inner_get(cache, domain, rtype, now).ret
    /\ last' = [op |-> "get", domain |-> domain, rtype |-> rtype, rrs |-> <<>>]
    /\ recent' = IF LruContains(cache, domain) THEN Touch(recent, domain) ELSE recent
    /\ UNCHANGED <<capacity, now, notCache>>

\* the wall clock advances
Tick ==
    /\ now < MaxNow
    /\ now' = now + 1
    /\ last' = [op |-> "tick", domain |-> None, rtype |-> None, rrs |-> <<>>]
    /\ ret' = None
    /\ UNCHANGED <<cache, capacity, recent, notCache>>

NoOp == [op |-> "init", domain |-> None, rtype |-> None, rrs |-> <<>>]

CacheInit ==
    /\ cache = <<>>
    /\ capacity \in 1..MaxCapacity
    /\ now = 0
    /\ last = NoOp
    /\ ret = None
    /\ recent = <<>>

PutArgs == {<<>>} \cup {<<r>> : r \in Records}

CacheNext ==
    \/ \E d \in Domains, rrs \in PutArgs : CachePut(d, rrs)
    \/ \E d \in Domains, t \in RTypes : CacheGet(d, t)
    \/ Tick

(***************************************************************************)
(* The AAAA rules: src/config/resolution.rs and Inner::is_allow_ipv6.      *)
(***************************************************************************)
DEFAULT_GROUP == "default"
Groups == {DEFAULT_GROUP, "office"}

\* owner names of answer records, and their labels (Name::iter)
AnswerNames == {"example.com.", "www.example.com.", "Example.com.", "other.org."}
NameLabels(n) ==
    CASE n = "example.com." -> <<"example", "com">>
      [] n = "www.example.com." -> <<"www", "example", "com">>
      [] n = "Example.com." -> <<"Example", "com">>
      [] n = "other.org." -> <<"other", "org">>

\* rule payloads as the configuration file writes them
PayloadTexts == {"example.com", ".example.com", "*.example.com"}
\* str::starts_with('.')
StartsWithDot(p) == p = ".example.com"
\* Name::from_ascii of the payload, after trim_start_matches('.') for a
\* payload that starts with '.'
FromAscii(p) ==
    CASE p = "example.com" -> <<"example", "com">>
      [] p = ".example.com" -> <<"example", "com">>
      [] p = "*.example.com" -> <<"*", "example", "com">>

\* u8::to_ascii_lowercase over the labels of the model
LowerLabel(l) == IF l = "Example" THEN "example" ELSE l
LowerName(n) == [i \in 1..Len(n) |-> LowerLabel(n[i])]

\* Name::zone_of_case: z is a zone of n, labels compared byte by byte
zone_of_case(z, n) ==
    IF Len(z) = 0 THEN TRUE
    ELSE IF Len(n) = 0 THEN FALSE
    ELSE IF Len(z) > Len(n) THEN FALSE
    ELSE \A i \in 0..(Len(z) - 1) : z[Len(z) - i] = n[Len(n) - i]

\* Name::is_wildcard
is_wildcard(n) == Len(n) > 0 /\ n[1] = "*"

\* Name::base_name: the name without its leftmost label
base_name(n) == IF Len(n) > 0 THEN SubSeq(n, 2, Len(n)) ELSE n

\* Name::eq_case: equal with the case of the letters compared
eq_case(a, b) == a = b

\* Name's PartialEq: equal with the case of the letters ignored
NameEq(a, b) == LowerName(a) = LowerName(b)

PayloadAll == [kind |-> "All", text |-> None]
PayloadDomain(p) == [kind |-> "Domain", text |-> p]

\* Resolution::payload_match, domain given by its labels
payload_match(rule, domain) ==
    IF rule.payload.kind = "All" THEN TRUE
    ELSE LET it == FromAscii(rule.payload.text)
         IN  IF StartsWithDot(rule.payload.text) THEN zone_of_case(it, domain)
             ELSE IF is_wildcard(it)
                  THEN zone_of_case(base_name(it), domain)
                       /\ ~NameEq(base_name(it), domain)
                  ELSE eq_case(it, domain)

Addrs == {"2001:db8::1", "2001:db8::2"}
\* the GeoIP reader's answer: maxminddb::Reader::lookup(...).country.iso_code
CountryIso(addr) == IF addr = "2001:db8::1" THEN "US" ELSE "CN"

Rule(d, c, p) == [directive |-> d, country |-> c, payload |-> p]

\* the rules the configurations of the model are made of
RulePool ==
    { Rule("Allow", None, PayloadDomain("example.com")),
      Rule("Deny", None, PayloadAll),
      Rule("Pingable", None, PayloadDomain(".example.com")),
      Rule("Country", "US", PayloadDomain("*.example.com")) }

\* a chain with the default rules first instead
ChainedRulesDefaultFirst(cfg, g) ==
    cfg.ipv6_resolution[DEFAULT_GROUP] \o cfg.ipv6_resolution[g]

\* group_rules.chain(default_rules) of Inner::is_allow_ipv6
ChainedRules(cfg, g) == cfg.ipv6_resolution[g] \o cfg.ipv6_resolution[DEFAULT_GROUP]

RECURSIVE ScanRules(_, _, _)
\* the for loop of Inner::is_allow_ipv6 from rule i on: the index of the rule
\* whose payload matches (0: none), and the rules payload_match was called on
ScanRules(rules, domain, i) ==
    IF i > Len(rules) THEN [rule |-> 0, visited |-> <<>>]
    ELSE IF ~payload_match(rules[i], domain)
         THEN LET rest == ScanRules(rules, domain, i + 1)
              IN  [rule |-> rest.rule, visited |-> <<i>> \o rest.visited]
         ELSE [rule |-> i, visited |-> <<i>>]

\* what Inner::is_allow_ipv6 returns once check_is_allow returned verdict
AllowAfterCheck(verdict) == IF ~verdict THEN FALSE ELSE TRUE

\* Resolution::check_is_allow for the directives that need no probe:
\* the verdict, or a panic (mmdb.unwrap() on None)
CheckNoProbe(rule, addr, cfg) ==
    CASE rule.directive = "Allow" -> [panic |-> FALSE, verdict |-> TRUE]
      [] rule.directive = "Deny" -> [panic |-> FALSE, verdict |-> FALSE]
      [] rule.directive = "Country" ->
            IF cfg.mmdb = None THEN [panic |-> TRUE, verdict |-> FALSE]
            ELSE [panic |-> FALSE, verdict |-> rule.country = CountryIso(addr)]
      [] OTHER -> [panic |-> FALSE, verdict |-> FALSE]

\* Option<bool> values of the ping cache
Some(b) == IF b THEN "Some(true)" ELSE "Some(false)"
Unwrap(o) == o = "Some(true)"

\* a task not yet run; verdict and res mean something once pc is "done"
Spawned == [pc |-> "spawned", visited |-> <<>>, checked |-> <<>>,
            verdict |-> FALSE, res |-> FALSE]

Finished(t) == t.pc \in {"done", "panicked"}

\* a spawned task runs: async move { true } for an answer without AAAA data,
\* Inner::is_allow_ipv6 up to its result or to the probe of a Pingable rule
TaskRun(i) ==
    /\ rpc = "join"
    /\ i \in 1..Len(tasks)
    /\ tasks[i].pc = "spawned"
    /\ LET rec == original[i]
           rules == ChainedRules(config, group)
           scan == ScanRules(rules, NameLabels(rec.name), 1)
           hit == scan.rule # 0
           rule == rules[scan.rule]
           t == [tasks[i] EXCEPT !.visited = scan.visited]
           tc == [t EXCEPT !.checked = <<scan.rule>>]
           v == CheckNoProbe(rule, rec.addr, config)
       IN  IF rec.rtype # "AAAA"
           THEN /\ tasks' = [tasks EXCEPT ![i] = [@ EXCEPT !.pc = "done", !.res = TRUE]]
                /\ completed' = Append(completed, i)
           ELSE IF ~hit
           THEN /\ tasks' = [tasks EXCEPT ![i] = [t EXCEPT !.pc = "done", !.res = TRUE]]
                /\ completed' = Append(completed, i)
           ELSE IF rule.directive = "Pingable"
           THEN IF pingCache[rec.addr] # None
                THEN /\ tasks' = [tasks EXCEPT ![i] =
                            [tc EXCEPT !.pc = "done",
                                       !.verdict = Unwrap(pingCache[rec.addr]),
                                       !.res = AllowAfterCheck(Unwrap(pingCache[rec.addr]))]]
                     /\ completed' = Append(completed, i)
                ELSE /\ tasks' = [tasks EXCEPT ![i] = [tc EXCEPT !.pc = "pinging"]]
                     /\ completed' = completed
           ELSE IF v.panic
           THEN /\ tasks' = [tasks EXCEPT ![i] = [tc EXCEPT !.pc = "panicked"]]
                /\ completed' = Append(completed, i)
           ELSE /\ tasks' = [tasks EXCEPT ![i] =
                       [tc EXCEPT !.pc = "done", !.verdict = v.verdict,
                                  !.res = AllowAfterCheck(v.verdict)]]
                /\ completed' = Append(completed, i)
    /\ UNCHANGED <<config, group, answers, original, pingCache, rpc, notFilter>>

\* ping_with_timeout returns (ok: is_ok()); the verdict is memoized
TaskPinged(i, ok) ==
    /\ rpc = "join"
    /\ i \in 1..Len(tasks)
    /\ tasks[i].pc = "pinging"
    /\ pingCache' = [pingCache EXCEPT ![original[i].addr] = Some(ok)]
    /\ tasks' = [tasks EXCEPT ![i] =
            [@ EXCEPT !.pc = "done", !.verdict = ok, !.res = AllowAfterCheck(ok)]]
    /\ completed' = Append(completed, i)
    /\ UNCHANGED <<config, group, answers, original, rpc, notFilter>>

\* the for loop of Handler::resolution: one task per answer
ResolutionSpawn ==
    /\ rpc = "start"
    /\ tasks' = [i \in 1..Len(answers) |-> Spawned]
    /\ rpc' = "join"
    /\ UNCHANGED <<config, group, answers, original, completed, pingCache, notFilter>>

\* an unwrap_or(true) instead: a failed task lets its record through
TaskOutputAllowsFailed(t) == IF t.pc = "panicked" THEN TRUE ELSE t.res

\* it.unwrap_or(false) on a task's JoinHandle output
TaskOutput(t) == IF t.pc = "panicked" THEN FALSE ELSE t.res

\* a join that returns the results in the order the tasks finished instead
JoinAllByCompletion(ts, order) == [i \in 1..Len(ts) |-> TaskOutput(ts[order[i]])]

\* futures::future::join_all(tasks): the results in the order of the tasks
JoinAll(ts, order) == [i \in 1..Len(ts) |-> TaskOutput(ts[i])]

RECURSIVE DrainFilter(_, _, _)
\* answers.drain(..).enumerate().filter_map(..).collect() from index i on
DrainFilter(recs, allows, i) ==
    IF i > Len(recs) THEN <<>>
    ELSE IF allows[i] THEN <<recs[i]>> \o DrainFilter(recs, allows, i + 1)
         ELSE DrainFilter(recs, allows, i + 1)

\* join_all completes once every task has finished; the answers are rewritten
ResolutionJoin ==
    /\ rpc = "join"
    /\ \A i \in 1..Len(tasks) : Finished(tasks[i])
    /\ answers' = DrainFilter(answers, JoinAll(tasks, completed), 1)
    /\ rpc' = "done"
    /\ UNCHANGED <<config, group, original, tasks, completed, pingCache, notFilter>>

\* the records the upstream answers of the model are made of
AnswerPool ==
    { [name |-> "www.example.com.", rtype |-> "AAAA", ttl |-> MaxTtl, addr |-> "2001:db8::1"],
      [name |-> "example.com.", rtype |-> "AAAA", ttl |-> MaxTtl, addr |-> "2001:db8::2"],
      [name |-> "Example.com.", rtype |-> "AAAA", ttl |-> MaxTtl, addr |-> "2001:db8::1"],
      [name |-> "other.org.", rtype |-> "AAAA", ttl |-> MaxTtl, addr |-> "2001:db8::2"],
      [name |-> "example.com.", rtype |-> "A", ttl |-> MaxTtl, addr |-> "93.184.216.34"] }

SeqsUpTo(S, n) == UNION {[1..k -> S] : k \in 0..n}

HasCountry(rules) == \E i \in 1..Len(rules) : rules[i].directive = "Country"

\* ipv6_resolution_parse accepts a Country rule only with a GeoIP reader
ValidConfig(cfg) ==
    (\E g \in Groups : HasCountry(cfg.ipv6_resolution[g])) => cfg.mmdb # None

Configs(S) ==
    {cfg \in [ipv6_resolution : [Groups -> S], mmdb : {None, "mmdb"}] :
        /\ ValidConfig(cfg)
        /\ cfg.mmdb # None => \E g \in Groups : HasCountry(cfg.ipv6_resolution[g])}

\* the state before Handler::resolution is called on a forwarded response
FilterStart ==
    /\ original = answers
    /\ tasks = <<>>
    /\ completed = <<>>
    /\ pingCache \in [Addrs -> {None, Some(TRUE), Some(FALSE)}]
    /\ rpc = "start"

\* one call of is_allow_ipv6 at a time, over every configuration
RulesInit ==
    /\ config \in Configs(SeqsUpTo(RulePool, MaxRules))
    /\ group \in Groups
    /\ answers \in {<<a>> : a \in {r \in AnswerPool : r.rtype = "AAAA"}}
    /\ FilterStart
    /\ \A x \in Addrs : x # answers[1].addr => pingCache[x] = None

\* the configurations the filter is run under
FilterRuleLists ==
    { <<>>,
      <<Rule("Deny", None, PayloadAll)>>,
      <<Rule("Pingable", None, PayloadDomain(".example.com"))>>,
      <<Rule("Country", "US", PayloadDomain("*.example.com")),
        Rule("Allow", None, PayloadDomain("example.com"))>> }

FilterInit ==
    /\ config \in {cfg \in Configs(FilterRuleLists) : cfg.ipv6_resolution["office"] = <<>>}
    /\ group \in Groups
    /\ answers \in SeqsUpTo(AnswerPool, MaxAnswers)
    /\ FilterStart

\* snapshots under which a check task can fail: a Country rule with or
\* without a GeoIP reader (Inner.metadata.mmdb), or a rule that probes
FailureRuleLists ==
    { <<Rule("Country", "US", PayloadDomain("*.example.com"))>>,
      <<Rule("Country", "US", PayloadDomain("*.example.com")),
        Rule("Deny", None, PayloadAll)>>,
      <<Rule("Pingable", None, PayloadDomain(".example.com"))>> }

FailureConfigs ==
    {cfg \in [ipv6_resolution : [Groups -> FailureRuleLists \cup {<<>>}],
              mmdb : {None, "mmdb"}] :
        /\ cfg.ipv6_resolution["office"] = <<>>
        /\ cfg.ipv6_resolution[DEFAULT_GROUP] # <<>>}

FailureInit ==
    /\ config \in FailureConfigs
    /\ group \in Groups
    /\ answers \in SeqsUpTo(AnswerPool, MaxAnswers)
    /\ FilterStart

FilterNext ==
    \/ ResolutionSpawn
    \/ \E i \in 1..MaxAnswers : TaskRun(i)
    \/ \E i \in 1..MaxAnswers, ok \in BOOLEAN : TaskPinged(i, ok)
    \/ ResolutionJoin

\* the other components at rest
CacheIdle ==
    /\ cache = <<>>
    /\ capacity = 0
    /\ now = 0
    /\ last = NoOp
    /\ ret = None
    /\ recent = <<>>

FilterAtRest(cfg) ==
    /\ config = cfg
    /\ group = DEFAULT_GROUP
    /\ answers = <<>>
    /\ original = <<>>
    /\ tasks = <<>>
    /\ completed = <<>>
    /\ pingCache = [a \in Addrs |-> None]
    /\ rpc = "idle"

EmptyConfig == [ipv6_resolution |-> [g \in Groups |-> <<>>], mmdb |-> None]
FilterIdle == FilterAtRest(EmptyConfig)

(***************************************************************************)
(* The query pipeline: src/handler.rs.                                     *)
(***************************************************************************)
Handlers == 1..MaxHandlers

HostEntry(addr, family, name) == [addr |-> addr, family |-> family, name |-> name]

\* the host tables the handlers of the pipeline run under
DefaultHosts ==
    [g \in Groups |->
        IF g = DEFAULT_GROUP
        THEN << HostEntry("10.0.0.1", "V4", "router.lan."),
                HostEntry("fd00::1", "V6", "router.lan.") >>
        ELSE << HostEntry("fd00::2", "V6", "nas.lan.") >>]

\* self.hosts.get(group).into_iter().flatten(): (address, family, name)
HostsTable(g) == IF g \in DOMAIN hosts THEN hosts[g] ELSE <<>>

\* group.chain(default) of Inner::get_hosts and Inner::get_hostname
ChainedHosts(g) == HostsTable(g) \o HostsTable(DEFAULT_GROUP)

RECURSIVE FindHost(_, _, _, _)
\* Iterator::find_map over the host entries from index i on: the first entry
\* whose field has the value
FindHost(entries, field, value, i) ==
    IF i > Len(entries) THEN <<>>
    ELSE IF entries[i][field] = value THEN <<entries[i]>>
    ELSE FindHost(entries, field, value, i + 1)

\* Inner::get_hosts: the first entry of that name, if any
get_hosts(g, domain) == FindHost(ChainedHosts(g), "name", domain, 1)

\* Inner::get_hostname: the first entry of that address, if any
get_hostname(g, addr) == FindHost(ChainedHosts(g), "addr", addr, 1)

\* a PTR name as strip_suffix and split('.') take it apart
PtrName(name, suffix, labels) == [name |-> name, suffix |-> suffix, labels |-> labels]

Zeros(n) == [i \in 1..n |-> "0"]

\* the PTR names of the model
PtrNames ==
    { PtrName("1.0.0.10.in-addr.arpa.", "in-addr", <<"1", "0", "0", "10">>),
      PtrName("2.0.0.10.in-addr.arpa.", "in-addr", <<"2", "0", "0", "10">>),
      PtrName("0.0.10.in-addr.arpa.", "in-addr", <<"0", "0", "10">>),
      PtrName("10.in-addr.arpa.", "in-addr", <<"10">>),
      PtrName("x.0.0.10.in-addr.arpa.", "in-addr", <<"x", "0", "0", "10">>),
      PtrName("9.1.0.0.10.in-addr.arpa.", "in-addr", <<"9", "1", "0", "0", "10">>),
      PtrName("1.0.0.0.(24 x 0.)0.0.d.f.ip6.arpa.", "ip6",
              <<"1", "0", "0", "0">> \o Zeros(24) \o <<"0", "0", "d", "f">>),
      PtrName("0.0.d.f.ip6.arpa.", "ip6", <<"0", "0", "d", "f">>),
      PtrName("1.0.0.10.example.", None, <<>>) }

\* name.strip_suffix(..) and addr.split('.')
Decompose(name) ==
    IF \E n \in PtrNames : n.name = name
    THEN CHOOSE n \in PtrNames : n.name = name
    ELSE PtrName(name, None, <<>>)

Reverse(s) == [i \in 1..Len(s) |-> s[Len(s) + 1 - i]]

\* it.parse::<u8>(): -1 for a label that is no number below 256
ParseU8(label) ==
    CASE label = "0" -> 0 [] label = "1" -> 1 [] label = "2" -> 2
      [] label = "9" -> 9 [] label = "10" -> 10 [] OTHER -> -1

\* the value of one hexadecimal digit, -1 for another character
HexDigit(c) ==
    CASE c = "0" -> 0 [] c = "1" -> 1 [] c = "2" -> 2 [] c = "9" -> 9
      [] c = "d" -> 13 [] c = "f" -> 15 [] OTHER -> -1

RECURSIVE FromStrRadix16(_, _)
\* u16::from_str_radix(&it.join(""), 16) on the digits from the first on,
\* acc being the value so far: -1 when a character is no digit
FromStrRadix16(digits, acc) ==
    IF digits = <<>> THEN acc
    ELSE IF HexDigit(Head(digits)) < 0 THEN -1
    ELSE FromStrRadix16(Tail(digits), acc * 16 + HexDigit(Head(digits)))

\* slice.chunks(4): the k-th chunk, the last one may be shorter
Chunk(s, k) == SubSeq(s, 4 * k - 3, IF 4 * k < Len(s) THEN 4 * k ELSE Len(s))
Chunks(s) == [k \in 1..((Len(s) + 3) \div 4) |-> Chunk(s, k)]

\* Ipv4Addr::new and Ipv6Addr::new, as the text the host tables hold
Ipv4Addr_new(p) ==
    CASE p = <<10, 0, 0, 1>> -> "10.0.0.1"
      [] p = <<10, 0, 0, 2>> -> "10.0.0.2"
      [] OTHER -> "unlisted"

Ipv6Addr_new(p) ==
    CASE p = <<64768, 0, 0, 0, 0, 0, 0, 1>> -> "fd00::1"
      [] p = <<64768, 0, 0, 0, 0, 0, 0, 2>> -> "fd00::2"
      [] OTHER -> "unlisted"

Decoded(kind, addr) == [kind |-> kind, addr |-> addr]

\* the address Handler::local_reverse_dns_query decodes from the PTR name:
\* Ok with the address, Ok with None for a name of neither suffix, Err for
\* a part that does not parse, Panic for an index past the parts
PtrAddr(name) ==
    LET d == Decompose(name)
    IN  CASE d.suffix = "in-addr" ->
                LET parts == Reverse([i \in 1..Len(d.labels) |-> ParseU8(d.labels[i])])
                IN  IF \E i \in 1..Len(parts) : parts[i] < 0 THEN Decoded("Err", None)
                    ELSE IF Len(parts) < 4 THEN Decoded("Panic", None)
                    ELSE Decoded("Ok", Ipv4Addr_new(SubSeq(parts, 1, 4)))
          [] d.suffix = "ip6" ->
                LET chunks == Chunks(Reverse(d.labels))
                    parts == [k \in 1..Len(chunks) |-> FromStrRadix16(chunks[k], 0)]
                IN  IF \E k \in 1..Len(parts) : parts[k] < 0 THEN Decoded("Err", None)
                    ELSE IF Len(parts) < 8 THEN Decoded("Panic", None)
                    ELSE Decoded("Ok", Ipv6Addr_new(SubSeq(parts, 1, 8)))
          [] OTHER -> Decoded("Ok", None)

Query(n, t) == [name |-> n, qtype |-> t]

\* the answers Handler::resolve_from_hosts appends for one query
HostsAnswersFor(g, q) ==
    CASE q.qtype = "PTR" ->
            IF PtrAddr(q.name).addr = None THEN <<>>
            ELSE [i \in 1..Len(get_hostname(g, PtrAddr(q.name).addr)) |->
                    [name |-> q.name, rtype |-> "PTR", ttl |-> 0,
                     addr |-> get_hostname(g, PtrAddr(q.name).addr)[i].name]]
      [] q.qtype = "A" ->
            LET addrs == SelectSeq(get_hosts(g, q.name), LAMBDA e : e.family = "V4")
            IN  [i \in 1..Len(addrs) |->
                    [name |-> q.name, rtype |-> "A", ttl |-> 1, addr |-> addrs[i].addr]]
      [] q.qtype = "AAAA" ->
            LET addrs == SelectSeq(get_hosts(g, q.name), LAMBDA e : e.family = "V6")
            IN  [i \in 1..Len(addrs) |->
                    [name |-> q.name, rtype |-> "AAAA", ttl |-> 1, addr |-> addrs[i].addr]]
      [] OTHER -> <<>>

RECURSIVE resolve_from_hosts(_, _, _)
\* Handler::resolve_from_hosts: the answers for the queries from index i on
resolve_from_hosts(g, queries, i) ==
    IF i > Len(queries) THEN <<>>
    ELSE HostsAnswersFor(g, queries[i]) \o resolve_from_hosts(g, queries, i + 1)

\* a PTR query of the request makes local_reverse_dns_query panic
HostsPanics(queries) ==
    \E i \in 1..Len(queries) :
        queries[i].qtype = "PTR" /\ PtrAddr(queries[i].name).kind = "Panic"

\* the hosts stage on its own: resolve_from_hosts for the request of lookup
HostsStage ==
    /\ lookup.out = <<>>
    /\ lookup' = [lookup EXCEPT !.out =
            IF HostsPanics(lookup.queries)
            THEN << [kind |-> "Panic", answers |-> <<>>] >>
            ELSE << [kind |-> "Ok",
                     answers |-> resolve_from_hosts(lookup.group, lookup.queries, 1)] >>]
    /\ UNCHANGED <<hosts, notHosts>>

\* the host lines of the model
HostPool ==
    { HostEntry("10.0.0.1", "V4", "router.lan."),
      HostEntry("10.0.0.2", "V4", "router.lan."),
      HostEntry("fd00::1", "V6", "router.lan.") }

\* the requests put to the hosts stage on its own
HostQueries ==
    {Query("router.lan.", t) : t \in {"A", "AAAA"}}
        \cup {Query(n.name, "PTR") : n \in PtrNames}

HostsInit ==
    /\ \E d \in {<<>>} \cup {<<e>> : e \in HostPool} \cup {<<e, f>> : e, f \in HostPool},
          o \in {<<>>} \cup {<<e>> : e \in HostPool} :
          hosts = [g \in Groups |-> IF g = DEFAULT_GROUP THEN d ELSE o]
    /\ \E g \in Groups, q \in HostQueries :
          lookup = [group |-> g, queries |-> <<q>>, out |-> <<>>]

HostsIdle ==
    /\ hosts = DefaultHosts
    /\ lookup = [group |-> DEFAULT_GROUP, queries |-> <<>>, out |-> <<>>]

HostsNext == HostsStage

RECURSIVE lookup_dns_cache(_, _, _, _)
\* Handler::lookup_dns_cache with the lock held, for the queries from index
\* i on: the cache afterwards and the answers collected
lookup_dns_cache(c, queries, i, t) ==
    IF i > Len(queries) THEN [cache |-> c, answers |-> <<>>]
    ELSE IF queries[i].qtype \notin {"A", "AAAA"}
         THEN lookup_dns_cache(c, queries, i + 1, t)
         ELSE LET g == Inner_get(c, queries[i].name, queries[i].qtype, t)
                  rest == lookup_dns_cache(g.cache, queries, i + 1, t)
              IN  [cache |-> rest.cache,
                   answers |-> (IF g.ret = None THEN <<>> ELSE g.ret) \o rest.answers]

\* Cache::enabled
enabled == capacity > 0

\* Inner::is_allow_ipv6 run to its end, ok being what a probe would report;
\* a task that panics counts as false (unwrap_or(false))
is_allow_ipv6(cfg, g, rec, pings, ok) ==
    LET rules == ChainedRules(cfg, g)
        scan == ScanRules(rules, NameLabels(rec.name), 1)
        rule == rules[scan.rule]
        v == CheckNoProbe(rule, rec.addr, cfg)
    IN  IF scan.rule = 0 THEN TRUE
        ELSE IF rule.directive = "Pingable"
             THEN AllowAfterCheck(IF pings[rec.addr] # None
                                  THEN Unwrap(pings[rec.addr]) ELSE ok)
             ELSE IF v.panic THEN FALSE ELSE AllowAfterCheck(v.verdict)

\* whether the check of rec ends in a probe whose verdict is memoized
Probes(cfg, g, rec, pings) ==
    LET rules == ChainedRules(cfg, g)
        scan == ScanRules(rules, NameLabels(rec.name), 1)
    IN  /\ rec.rtype = "AAAA"
        /\ scan.rule # 0
        /\ rules[scan.rule].directive = "Pingable"
        /\ pings[rec.addr] = None

\* Handler::resolution on the answers recs: what join_all returns
ResolutionAllows(cfg, g, recs, pings, oks) ==
    [i \in 1..Len(recs) |->
        IF recs[i].rtype = "AAAA"
        THEN is_allow_ipv6(cfg, g, recs[i], pings, oks[recs[i].addr])
        ELSE TRUE]

Idle ==
    [pc |-> "idle", group |-> DEFAULT_GROUP,
     bytes |-> [valid |-> FALSE, recs |-> <<>>, form |-> None], out |-> <<>>, consulted |-> <<>>,
     yield |-> [s \in {"hosts", "cache"} |-> <<>>], stage |-> None, res |-> <<>>,
     sent |-> 0, err |-> None, upstream |-> <<>>, after |-> {}]

\* bytes on the wire: Message::from_bytes fails (valid is FALSE) or gives the
\* message with these queries, or these answers; form tells how the names
\* are written, with compression pointers as BinEncoder writes them
Bytes(valid, recs) ==
    [valid |-> valid, recs |-> recs, form |-> IF valid THEN "compressed" ELSE None]
\* the same message with every name written in full
PlainBytes(recs) == [valid |-> TRUE, recs |-> recs, form |-> "plain"]
Garbage == Bytes(FALSE, <<>>)
IsMessage(bytes) == bytes.valid

\* Message::from_bytes of bytes that parse: the message, whatever the form
from_bytes(bytes) == bytes.recs

\* a serialization that leaves the answers out
to_vec_no_answers(message) == Bytes(TRUE, <<>>)

\* Message::to_vec: the message as BinEncoder writes it
to_vec(message) == Bytes(TRUE, message)

\* the requests clients send: bytes that do not parse, or a list of queries
Requests ==
    { Garbage,
      Bytes(TRUE, <<Query("router.lan.", "A")>>),
      Bytes(TRUE, <<Query("1.0.0.10.in-addr.arpa.", "PTR")>>),
      Bytes(TRUE, <<Query("example.com.", "A")>>),
      Bytes(TRUE, <<Query("example.com.", "AAAA")>>) }

\* the requests read by the acceptors, each with the group of its client
Arrivals ==
    {[bytes |-> b, group |-> DEFAULT_GROUP] : b \in Requests}
        \cup {[bytes |-> Bytes(TRUE, <<Query("example.com.", "AAAA")>>), group |-> "office"]}

\* what the upstream may send back: bytes that do not parse, or answers
UpstreamReplies ==
    { Garbage,
      Bytes(TRUE, <<>>),
      PlainBytes(<< [name |-> "example.com.", rtype |-> "A", ttl |-> MaxTtl,
                     addr |-> "93.184.216.34"] >>),
      Bytes(TRUE, << [name |-> "www.example.com.", rtype |-> "AAAA", ttl |-> MaxTtl,
                      addr |-> "2001:db8::2"],
                     [name |-> "www.example.com.", rtype |-> "AAAA", ttl |-> MaxTtl,
                      addr |-> "2001:db8::1"] >>) }

Terminal == {"done", "error", "panicked"}

\* the handlers whose forwarded reply has reached Handler::cache_dns_record
Answered ==
    {k \in Handlers :
        handlers[k].upstream # <<>> /\ handlers[k].pc \notin {"resolution", "cache_record"}}

\* the acceptor builds a Handler for the bytes it read and spawns run():
\* Message::from_bytes parses the request or the request is dropped
HandlerRun(h, bytes, g) ==
    /\ handlers[h].pc = "idle"
    /\ \A k \in Handlers : k < h => handlers[k].pc # "idle"
    /\ handlers' = [handlers EXCEPT ![h] =
            [Idle EXCEPT !.group = g, !.bytes = bytes,
                         !.after = {k \in Answered : handlers[k].bytes = bytes},
                         !.pc = IF IsMessage(bytes) THEN "hosts" ELSE "error",
                         !.err = IF IsMessage(bytes) THEN None ELSE "parse"]]
    /\ UNCHANGED <<cacheVars, filterVars, restVars>>

\* a handle() that runs the next stage whatever the stage produced
AfterStageFallThrough(ans, next) == next

\* what follows a stage of handle(): the response is sent, or the next stage runs
AfterStage(ans, next) == IF ans # <<>> THEN "send" ELSE next

\* stage 1 of handle(): resolve_from_hosts
HandleHosts(h) ==
    /\ handlers[h].pc = "hosts"
    /\ LET ans == resolve_from_hosts(handlers[h].group, handlers[h].bytes.recs, 1)
       IN  handlers' = [handlers EXCEPT ![h] =
                IF HostsPanics(handlers[h].bytes.recs)
                THEN [@ EXCEPT !.consulted = Append(@, "hosts"), !.pc = "panicked"]
                ELSE [@ EXCEPT !.consulted = Append(@, "hosts"),
                               !.yield = [@ EXCEPT !["hosts"] = ans],
                               !.res = ans,
                               !.stage = IF ans # <<>> THEN "L" ELSE None,
                               !.pc = AfterStage(ans, "cache")]]
    /\ UNCHANGED <<cacheVars, filterVars, restVars>>

\* stage 2 of handle(): lookup_dns_cache
HandleCache(h) ==
    /\ handlers[h].pc = "cache"
    /\ LET hit == IF enabled
                  THEN lookup_dns_cache(cache, handlers[h].bytes.recs, 1, now)
                  ELSE [cache |-> cache, answers |-> <<>>]
       IN  /\ cache' = hit.cache
           /\ handlers' = [handlers EXCEPT ![h] =
                [@ EXCEPT !.consulted = Append(@, "cache"),
                          !.yield = [@ EXCEPT !["cache"] = hit.answers],
                          !.res = hit.answers,
                          !.stage = IF hit.answers # <<>> THEN "C" ELSE None,
                          !.pc = AfterStage(hit.answers, "forward")]]
    /\ UNCHANGED <<capacity, now, last, ret, recent, filterVars, restVars>>

\* a handler that answers a failed forward with an error response
ForwardFailedReplies(hr, e) == [hr EXCEPT !.pc = "error", !.err = e, !.sent = @ + 1]

\* the handler after forward_dns_query failed: the error goes to run()
ForwardFailed(hr, e) == [hr EXCEPT !.pc = "error", !.err = e]

\* stage 3 of handle(): forward_dns_query, then Message::from_bytes of the reply
HandleForward(h, outcome, reply) ==
    /\ handlers[h].pc = "forward"
    /\ LET hr == [handlers[h] EXCEPT !.consulted = Append(@, "forward")]
       IN  handlers' = [handlers EXCEPT ![h] =
                IF outcome # "ok" THEN ForwardFailed(hr, outcome)
                ELSE IF ~IsMessage(reply) THEN ForwardFailed(hr, "reply_parse")
                ELSE [hr EXCEPT !.upstream = <<reply>>, !.res = from_bytes(reply),
                                !.pc = IF \E i \in 1..Len(hr.bytes.recs) :
                                              hr.bytes.recs[i].qtype = "AAAA"
                                       THEN "resolution" ELSE "cache_record"]]
    /\ UNCHANGED <<cacheVars, filterVars, restVars>>

\* Handler::resolution: the AAAA post-filter of the forwarded answers
HandleResolution(h, oks) ==
    /\ handlers[h].pc = "resolution"
    /\ LET recs == handlers[h].res
           g == handlers[h].group
           allows == ResolutionAllows(config, g, recs, pingCache, oks)
       IN  /\ handlers' = [handlers EXCEPT ![h] =
                    [@ EXCEPT !.res = DrainFilter(recs, allows, 1), !.pc = "cache_record"]]
           /\ pingCache' = [a \in Addrs |->
                    IF \E i \in 1..Len(recs) :
                          recs[i].addr = a /\ Probes(config, g, recs[i], pingCache)
                    THEN Some(oks[a]) ELSE pingCache[a]]
    /\ UNCHANGED <<cacheVars, config, group, answers, original, tasks, completed, rpc, restVars>>

\* Handler::cache_dns_record: Ok(()) with the cache disabled, todo!() otherwise
HandleCacheRecord(h) ==
    /\ handlers[h].pc = "cache_record"
    /\ handlers' = [handlers EXCEPT ![h] =
            IF ~enabled THEN [@ EXCEPT !.pc = "send", !.stage = "F"]
            ELSE [@ EXCEPT !.pc = "panicked"]]
    /\ UNCHANGED <<cacheVars, filterVars, restVars>>

\* send_ret(res.to_vec(), addr): reply_fn is invoked and reports ok or an error
HandleSend(h, ok) ==
    /\ handlers[h].pc = "send"
    /\ handlers' = [handlers EXCEPT ![h] =
            [@ EXCEPT !.sent = @ + 1,
                      !.out = <<to_vec(handlers[h].res)>>,
                      !.pc = IF ok THEN "done" ELSE "error",
                      !.err = IF ok THEN None ELSE "send"]]
    /\ UNCHANGED <<cacheVars, filterVars, restVars>>

HandlerNext ==
    \/ \E h \in Handlers, a \in Arrivals : HandlerRun(h, a.bytes, a.group)
    \/ \E h \in Handlers : HandleHosts(h)
    \/ \E h \in Handlers : HandleCache(h)
    \/ \E h \in Handlers, outcome \in {"ok", "forward", "timeout"}, reply \in UpstreamReplies :
            HandleForward(h, outcome, reply)
    \/ \E h \in Handlers, oks \in [Addrs -> BOOLEAN] : HandleResolution(h, oks)
    \/ \E h \in Handlers : HandleCacheRecord(h)
    \/ \E h \in Handlers, ok \in BOOLEAN : HandleSend(h, ok)

\* one Handler taken through run(): the steps of handler 1 alone
HandlerSteps ==
    \/ \E a \in Arrivals : HandlerRun(1, a.bytes, a.group)
    \/ HandleHosts(1)
    \/ HandleCache(1)
    \/ \E outcome \in {"ok", "forward", "timeout"}, reply \in UpstreamReplies :
            HandleForward(1, outcome, reply)
    \/ \E oks \in [Addrs -> BOOLEAN] : HandleResolution(1, oks)
    \/ HandleCacheRecord(1)
    \/ \E ok \in BOOLEAN : HandleSend(1, ok)

(***************************************************************************)
(* Client groups: src/config/group.rs and Inner::attribute_group.          *)
(* Addresses are [fam, val] with val a number of V4Bits or V6Bits bits.    *)
(***************************************************************************)
RECURSIVE Pow2(_)
Pow2(n) == IF n = 0 THEN 1 ELSE 2 * Pow2(n - 1)

RECURSIVE BitAnd(_, _)
\* a & b
BitAnd(a, b) ==
    IF a = 0 \/ b = 0 THEN 0
    ELSE (a % 2) * (b % 2) + 2 * BitAnd(a \div 2, b \div 2)

RECURSIVE BitOr(_, _)
\* a | b
BitOr(a, b) ==
    IF a = 0 THEN b ELSE IF b = 0 THEN a
    ELSE (IF a % 2 = 1 \/ b % 2 = 1 THEN 1 ELSE 0) + 2 * BitOr(a \div 2, b \div 2)

\* !a on an unsigned integer of w bits
BitNot(a, w) == Pow2(w) - 1 - a

V4(v) == [fam |-> "V4", val |-> v]
V6(v) == [fam |-> "V6", val |-> v]
V4Addrs == {V4(v) : v \in 0..(Pow2(V4Bits) - 1)}
V6Addrs == {V6(v) : v \in 0..(Pow2(V6Bits) - 1)}
IpAddrs == V4Addrs \cup V6Addrs

\* Ipv4Addr::to_ipv6_mapped: the IPv4 addresses lie in one block of the
\* IPv6 addresses
MappedBase == Pow2(V6Bits) - Pow2(V4Bits)
to_ipv6_mapped(addr) == IF addr.fam = "V4" THEN V6(MappedBase + addr.val) ELSE addr

\* IpAddr's derived Ord: every V4 before every V6, then by value
IpLess(a, b) ==
    IF a.fam = b.fam THEN a.val < b.val ELSE a.fam = "V4"

\* the forms parse_ip_range tells apart in one part of a [group] value
SingleText(a) == [form |-> "single", start |-> a, end |-> a, prefix |-> 0]
RangeText(a, b) == [form |-> "range", start |-> a, end |-> b, prefix |-> 0]
CidrText(a, p) == [form |-> "cidr", start |-> a, end |-> a, prefix |-> p]

\* IpRange::Single and IpRange::Range (std::ops::Range { start, end })
IpSingle(a) == [kind |-> "Single", start |-> a, end |-> a]
IpRange(a, b) == [kind |-> "Range", start |-> a, end |-> b]
ParseErr == [kind |-> "Err", start |-> V6(0), end |-> V6(0)]
ParsePanic == [kind |-> "Panic", start |-> V6(0), end |-> V6(0)]

\* 1 << n on an integer of w bits with overflow checks off: the shift
\* amount wraps
WrappingShl(n, w) == Pow2(n % w)

\* the CIDR branch of parse_ip_range for an address of w bits
ParseCidr(ip, prefix, w, b) ==
    IF prefix > w THEN ParseErr
    ELSE IF w - prefix >= w /\ b = "debug" THEN ParsePanic
    ELSE LET mask == BitNot(WrappingShl(w - prefix, w) - 1, w)
             start == BitAnd(ip.val, mask)
         IN  IF ip.fam = "V4"
             THEN IpRange(to_ipv6_mapped(V4(start)),
                          to_ipv6_mapped(V4(BitOr(start, BitNot(mask, w)))))
             ELSE IpRange(V6(start), V6(BitOr(ip.val, BitNot(mask, w))))

\* parse_ip_range for one part of the value
parse_ip_range(text, b) ==
    CASE text.form = "range" ->
            IpRange(to_ipv6_mapped(text.start), to_ipv6_mapped(text.end))
      [] text.form = "cidr" ->
            ParseCidr(text.start, text.prefix,
                      IF text.start.fam = "V4" THEN V4Bits ELSE V6Bits, b)
      [] OTHER -> IpSingle(to_ipv6_mapped(text.start))

\* match_ipaddr
match_ipaddr(a, b) ==
    IF a.fam # b.fam THEN to_ipv6_mapped(a) = to_ipv6_mapped(b) ELSE a = b

\* Range::is_empty and Range::contains
RangeIsEmpty(r) == ~IpLess(r.start, r.end)
RangeContains(r, a) == ~IpLess(a, r.start) /\ IpLess(a, r.end)

\* the closure of attribute_group on one IpRange
RangeMatches(r, addr) ==
    IF r.kind = "Single" THEN match_ipaddr(r.start, addr)
    ELSE IF RangeIsEmpty(r) THEN FALSE
    ELSE RangeContains(r, to_ipv6_mapped(addr))

RECURSIVE FindGroup(_, _, _, _)
\* self.groups.iter().find(..) over the groups in the order names, from
\* index i on: groups maps a group name to its IpRanges
FindGroup(groups, names, addr, i) ==
    IF i > Len(names) THEN DEFAULT_GROUP
    ELSE IF \E k \in 1..Len(groups[names[i]]) : RangeMatches(groups[names[i]][k], addr)
         THEN names[i]
         ELSE FindGroup(groups, names, addr, i + 1)

\* Inner::attribute_group, names being the order the HashMap iterates in
attribute_group(groups, names, addr) == FindGroup(groups, names, addr, 1)

\* the values a [group] line is given in the model: one part each
GroupLines ==
    {SingleText(a) : a \in IpAddrs}
        \cup {RangeText(a, b) : a, b \in V4Addrs}
        \cup {RangeText(a, b) : a, b \in {V6(v) : v \in 0..(MappedBase - 1)}}
        \cup {CidrText(a, p) : a \in V4Addrs, p \in 0..(V4Bits + 1)}
        \cup {CidrText(a, p) : a \in V6Addrs, p \in 0..(V6Bits + 1)}

\* Inner::parse reads the line "office <groupLine>" of the [group] section,
\* then attribute_group is asked for the client
AttributeGroup ==
    /\ attributed = None
    /\ LET r == parse_ip_range(groupLine, build)
       IN  attributed' =
              IF r.kind \in {"Err", "Panic"} THEN r.kind
              ELSE attribute_group([g \in {"office"} |-> <<r>>], <<"office">>, client)
    /\ UNCHANGED <<build, groupLine, client, notGroup>>

GroupInit ==
    /\ build \in {"debug", "release"}
    /\ groupLine \in GroupLines
    /\ client \in IpAddrs
    /\ attributed = None

GroupIdle ==
    /\ build = "release"
    /\ groupLine = SingleText(V4(0))
    /\ client = V4(0)
    /\ attributed = None

GroupNext == AttributeGroup

(***************************************************************************)
(* The shared configuration: Inner::load, Inner::parse, server::parse,     *)
(* Config::new, Config::reload, Config::access in src/config.              *)
(***************************************************************************)
\* the characters of a [server] value
Chars == {"1", "8", ","}

RECURSIVE Comma(_, _)
\* the index of the first ',' of value from i on, 0 when there is none
Comma(value, i) ==
    IF i > Len(value) THEN 0
    ELSE IF value[i] = "," THEN i ELSE Comma(value, i + 1)

RECURSIVE Split(_)
\* value.split(','): one part more than there are commas
Split(value) ==
    LET i == Comma(value, 1)
    IN  IF i = 0 THEN <<value>>
        ELSE <<SubSeq(value, 1, i - 1)>> \o Split(SubSeq(value, i + 1, Len(value)))

\* HashMap::insert
Insert(map, key, value) ==
    [k \in DOMAIN map \cup {key} |-> IF k = key THEN value ELSE map[k]]

EmptyMap == [k \in {} |-> <<>>]

\* the Inner built so far: groups, servers, and the order in which the
\* groups HashMap iterates
EmptyInner == [groups |-> EmptyMap, servers |-> EmptyMap, order |-> <<>>, src |-> 0]

Parsed(kind, inner) == [kind |-> kind, inner |-> inner]

RECURSIVE ParseGroups(_, _, _, _)
\* group::parse on the lines of the [group] section from line i on
ParseGroups(lines, i, inner, b) ==
    IF i > Len(lines) THEN Parsed("Ok", inner)
    ELSE LET r == parse_ip_range(lines[i].value, b)
         IN  IF r.kind \in {"Err", "Panic"} THEN Parsed(r.kind, inner)
             ELSE ParseGroups(lines, i + 1,
                     [inner EXCEPT !.groups = Insert(@, lines[i].key, <<r>>)], b)

RECURSIVE ParseServers(_, _, _)
\* server::parse on the lines of the [server] section from line i on
ParseServers(lines, i, inner) ==
    IF i > Len(lines) THEN Parsed("Ok", inner)
    ELSE IF lines[i].key # DEFAULT_GROUP /\ lines[i].key \notin DOMAIN inner.groups
         THEN Parsed("Err", inner)
         ELSE ParseServers(lines, i + 1,
                 [inner EXCEPT !.servers = Insert(@, lines[i].key, Split(lines[i].value))])

\* a parse that accepts a server section without a default line
AcceptsAnyServers(inner) == TRUE

\* the check at the end of Inner::parse
RequiresDefault(inner) == DEFAULT_GROUP \in DOMAIN inner.servers

\* Inner::parse: the [group] section, then the [server] section
Inner_parse(text, b) ==
    LET g == ParseGroups(text.groups, 1, [EmptyInner EXCEPT !.src = text.id], b)
    IN  IF g.kind # "Ok" THEN g
        ELSE LET sv == ParseServers(text.servers, 1, g.inner)
             IN  IF sv.kind # "Ok" THEN sv
                 ELSE IF ~RequiresDefault(sv.inner) THEN Parsed("Err", sv.inner)
                 ELSE sv

\* Inner::load: open and read the file, then parse
Inner_load(f, b) ==
    IF ~f.readable THEN Parsed("Err", EmptyInner) ELSE Inner_parse(f, b)

\* the orders a HashMap of these keys may iterate in
Orders(keys) ==
    {o \in [1..Cardinality(keys) -> keys] : \A i, j \in 1..Cardinality(keys) : o[i] = o[j] => i = j}

\* Inner::get_server up to the Option it unwraps: <<>> is None
ServersGet(inner, name) ==
    LET key == IF name \in DOMAIN inner.servers THEN name ELSE DEFAULT_GROUP
    IN  IF key \in DOMAIN inner.servers THEN <<inner.servers[key]>> ELSE <<>>

Line(key, value) == [key |-> key, value |-> value]

File(id, readable, groups, servers) ==
    [id |-> id, readable |-> readable, groups |-> groups, servers |-> servers]

\* the contents the config file takes in the model
ConfigFiles ==
    { File(1, TRUE, <<>>, <<Line(DEFAULT_GROUP, <<>>)>>),
      File(2, TRUE,
           <<Line("office", RangeText(V4(0), V4(2))), Line("lab", RangeText(V4(1), V4(3)))>>,
           <<Line(DEFAULT_GROUP, <<"1", ",", "8">>), Line("office", <<"8">>)>>),
      File(3, TRUE, <<Line("office", SingleText(V4(0)))>>, <<Line("office", <<"8">>)>>),
      File(4, TRUE, <<>>, <<Line(DEFAULT_GROUP, <<"1">>), Line("lab", <<"8">>)>>),
      File(5, FALSE, <<>>, <<>>),
      File(6, TRUE, <<Line("office", CidrText(V4(0), 0))>>, <<Line(DEFAULT_GROUP, <<"8">>)>>) }

\* the group names a handler may carry, those of older snapshots included
GroupNames == {DEFAULT_GROUP, "office", "lab", "guest"}

Addresses == 1..MaxSnapshots
Readers == 1..MaxReaders

Unallocated == [state |-> "unallocated", strong |-> 0, inner |-> EmptyInner]

\* the addresses not yet handed out by the allocator
Free == {a \in Addresses : heap[a].state = "unallocated"}

\* drop of one Arc of the allocation at address a: the last one frees it
ArcDrop(h, a) ==
    [h EXCEPT ![a] = [@ EXCEPT !.strong = @ - 1,
                               !.state = IF h[a].strong = 1 THEN "freed" ELSE h[a].state]]

\* a reload that goes on to the swap after an error
NoEarlyReturn(loaded) == FALSE

\* the ? of reload: an error of Inner::load returns before the swap
EarlyReturn(loaded) == loaded.kind = "Err"

\* reload() up to ptr.swap, f being the content it finds on disk: load,
\* Arc::new, Arc::into_raw, swap
ReloadSwap(f) ==
    /\ main = "join_next"
    /\ reloader.pc = "select"
    /\ LET loaded == Inner_load(f, build)
       IN  IF loaded.kind = "Panic"
           THEN /\ reloader' = [pc |-> "panicked", result |-> "Panic", before |-> ptr]
                /\ readers' = [r \in Readers |-> [readers[r] EXCEPT !.fresh = FALSE]]
                /\ UNCHANGED <<ptr, heap>>
           ELSE IF EarlyReturn(loaded)
           THEN /\ reloader' = [pc |-> "select", result |-> "Err", before |-> ptr]
                /\ readers' = [r \in Readers |-> [readers[r] EXCEPT !.fresh = FALSE]]
                /\ UNCHANGED <<ptr, heap>>
           ELSE /\ Free # {}
                /\ \E a \in Free, o \in Orders(DOMAIN loaded.inner.groups) :
                      /\ a = CHOOSE x \in Free : \A y \in Free : x <= y
                      /\ heap' = [heap EXCEPT ![a] =
                            [state |-> "live", strong |-> 1,
                             inner |-> [loaded.inner EXCEPT !.order = o]]]
                      /\ ptr' = a
                /\ reloader' = [pc |-> "swapped", result |-> loaded.kind, before |-> ptr]
                /\ readers' = [r \in Readers |-> [readers[r] EXCEPT !.fresh = FALSE]]
    /\ UNCHANGED <<serverVars, notShared>>

\* reload() after the swap: the Arc of the old pointer, which the swap
\* returned, is dropped
ReloadDrop ==
    /\ main = "join_next"
    /\ reloader.pc = "swapped"
    /\ heap' = ArcDrop(heap, reloader.before)
    /\ reloader' = [reloader EXCEPT !.pc = "select"]
    /\ UNCHANGED <<ptr, readers, serverVars, notShared>>

\* the panic of the signal task reaches run_until_done through join_next
JoinPanic ==
    /\ main = "join_next"
    /\ reloader.pc = "panicked"
    /\ ~shutdown_signal
    /\ main' = "Err"
    /\ UNCHANGED <<limit_connections, shutdown_signal, acceptors, inflight,
                   abortedHandlers, join_set, signals, capAtCancel>>
    /\ UNCHANGED <<sharedVars, notShared>>

\* access(): ptr.load
AccessLoad(r) ==
    /\ main = "join_next"
    /\ readers[r].pc = "idle"
    /\ readers' = [readers EXCEPT ![r] =
            [pc |-> "loaded", ptr |-> ptr, fresh |-> TRUE, dangling |-> FALSE]]
    /\ UNCHANGED <<ptr, heap, reloader, serverVars, notShared>>

\* access(): Arc::from_raw, Arc::clone, forget.  On an allocation that was
\* freed in between this reads freed memory: the reader is left with a
\* dangling Arc or the process is brought down
AccessClone(r) ==
    /\ main = "join_next"
    /\ readers[r].pc = "loaded"
    /\ IF heap[readers[r].ptr].state = "live"
       THEN /\ heap' = [heap EXCEPT ![readers[r].ptr].strong = @ + 1]
            /\ readers' = [readers EXCEPT ![r].pc = "holding"]
            /\ UNCHANGED main
       ELSE \E outcome \in {"dangling", "crash"} :
            /\ readers' = [readers EXCEPT ![r].pc = "holding", ![r].dangling = TRUE]
            /\ main' = IF outcome = "crash" THEN "Err" ELSE main
            /\ UNCHANGED heap
    /\ UNCHANGED <<limit_connections, shutdown_signal, acceptors, inflight,
                   abortedHandlers, join_set, signals, capAtCancel>>
    /\ UNCHANGED <<ptr, reloader, notShared>>

\* the Arc returned by access() is dropped
AccessDrop(r) ==
    /\ main = "join_next"
    /\ readers[r].pc = "holding"
    /\ heap' = IF readers[r].dangling THEN heap ELSE ArcDrop(heap, readers[r].ptr)
    /\ readers' = [readers EXCEPT ![r] =
            [pc |-> "idle", ptr |-> 0, fresh |-> FALSE, dangling |-> FALSE]]
    /\ UNCHANGED <<ptr, reloader, serverVars, notShared>>

SharedNext ==
    \/ \E f \in ConfigFiles : ReloadSwap(f)
    \/ ReloadDrop
    \/ JoinPanic
    \/ \E r \in Readers : AccessLoad(r)
    \/ \E r \in Readers : AccessClone(r)
    \/ \E r \in Readers : AccessDrop(r)

ReadersIdle == [r \in Readers |-> [pc |-> "idle", ptr |-> 0, fresh |-> FALSE, dangling |-> FALSE]]

\* Config::new on the file f: the first snapshot at the first address
ConfigNew(f, b) ==
    /\ Inner_load(f, b).kind = "Ok"
    /\ ptr = 1
    /\ \E o \in Orders(DOMAIN Inner_load(f, b).inner.groups) :
          heap = [a \in Addresses |->
                    IF a = 1 THEN [state |-> "live", strong |-> 1,
                                   inner |-> [Inner_load(f, b).inner EXCEPT !.order = o]]
                    ELSE Unallocated]
    /\ readers = ReadersIdle
    /\ reloader = [pc |-> "select", result |-> None, before |-> 0]

SharedInit == \E f \in ConfigFiles : ConfigNew(f, build)

SharedIdle ==
    ConfigNew(File(1, TRUE, <<>>, <<Line(DEFAULT_GROUP, <<>>)>>), "release")

(***************************************************************************)
(* The upstream transports: src/resolves.  A server text is a sequence of  *)
(* tokens, the separators "://" and ":" and path segments being tokens.    *)
(***************************************************************************)
RECURSIVE IndexOf(_, _, _)
\* the first index from i on at which text has the token, 0 when nowhere
IndexOf(text, token, i) ==
    IF i > Len(text) THEN 0
    ELSE IF text[i] = token THEN i ELSE IndexOf(text, token, i + 1)

\* the first part of text.split(token) and what follows the token
Before(text, token) ==
    IF IndexOf(text, token, 1) = 0 THEN text
    ELSE SubSeq(text, 1, IndexOf(text, token, 1) - 1)
After(text, token) ==
    IF IndexOf(text, token, 1) = 0 THEN <<>>
    ELSE SubSeq(text, IndexOf(text, token, 1) + 1, Len(text))

starts_with(text, scheme) ==
    Len(text) >= 2 /\ text[1] = scheme /\ text[2] = "://"

ends_with(text, token) == text # <<>> /\ text[Len(text)] = token

\* split_addr: the protocol, the address and the port, <<>> for an absent
\* one; rest is the second part of input.split("://") when there is one
split_addr(input) ==
    LET has == IndexOf(input, "://", 1) # 0
        rest == IF has THEN Before(After(input, "://"), "://") ELSE input
    IN  [protocol |-> IF has THEN <<Before(input, "://")>> ELSE <<>>,
         addr |-> Before(rest, ":"),
         port |-> IF IndexOf(rest, ":", 1) = 0 THEN <<>>
                  ELSE <<Before(After(rest, ":"), ":")>>]

\* port.unwrap_or(default)
UnwrapOr(port, default) == IF port = <<>> THEN <<default>> ELSE port[1]

\* the tokens that begin with a letter: what Url::parse takes for a scheme
SchemeLike == {"tls", "https", "udp", "dns.google"}
PathTokens == {"/", "/dns-query", "/custom"}

NoUrl == [ok |-> FALSE, scheme |-> None, host |-> <<>>, port |-> <<>>, path |-> <<>>]

\* Url::parse: scheme://host[:port][path], or scheme:opaque without a host;
\* a text that does not begin with a scheme is a relative URL, an error
Url_parse(text) ==
    IF starts_with(text, text[1]) /\ text[1] \in SchemeLike /\ Len(text) >= 3
    THEN LET tail == SubSeq(text, 4, Len(text))
             port == IF tail # <<>> /\ tail[1] = ":" THEN <<tail[2]>> ELSE <<>>
             path == SelectSeq(tail, LAMBDA t : t \in PathTokens)
         IN  [ok |-> TRUE, scheme |-> text[1], host |-> <<text[3]>>,
              port |-> port, path |-> path]
    ELSE IF Len(text) >= 2 /\ text[1] \in SchemeLike /\ text[2] = ":"
    THEN [ok |-> TRUE, scheme |-> text[1], host |-> <<>>, port |-> <<>>, path |-> <<>>]
    ELSE NoUrl

\* Url::port_or_known_default
port_or_known_default(url) ==
    IF url.port # <<>> THEN url.port
    ELSE IF url.scheme = "https" THEN <<"443">> ELSE <<>>

Dial(transport, host, port, path) ==
    [transport |-> transport, host |-> host, port |-> port, path |-> path]

\* build_tcp_stream up to the address it connects to: <<>> when the URL
\* has no host or no port
UrlDial(transport, url) ==
    IF url.host = <<>> \/ port_or_known_default(url) = <<>> THEN <<>>
    ELSE <<Dial(transport, url.host[1], port_or_known_default(url)[1], url.path)>>

\* DoT::new and DoH::new: the resolver for the target text, or the error
\* of Url::parse
UrlResolver(transport, target) ==
    IF Url_parse(target).ok
    THEN [built |-> TRUE, transport |-> transport,
          dial |-> UrlDial(transport, Url_parse(target))]
    ELSE [built |-> FALSE, transport |-> transport, dial |-> <<>>]

\* resolve(server, bytes) up to the resolver it builds
Resolver(text) ==
    IF starts_with(text, "tls")
    THEN UrlResolver("DoT",
            split_addr(text).addr \o <<":">> \o UnwrapOr(split_addr(text).port, "853"))
    ELSE IF starts_with(text, "https")
    THEN UrlResolver("DoH",
            IF ends_with(text, "/dns-query") THEN text ELSE text \o <<"/dns-query">>)
    ELSE LET addr == split_addr(text).addr
             port == UnwrapOr(split_addr(text).port, "53")
         IN  [built |-> TRUE, transport |-> "UDP",
              dial |-> IF Len(addr) = 1 /\ Len(port) = 1
                       THEN <<Dial("UDP", addr[1], port[1], <<>>)>> ELSE <<>>]

\* the server texts of the model
ServerTexts ==
    { <<"tls", "://", "8.8.8.8", ":", "853">>,
      <<"tls", "://", "8.8.8.8">>,
      <<"tls", "://", "dns.google", ":", "853">>,
      <<"https", "://", "1.1.1.1">>,
      <<"https", "://", "1.1.1.1", "/dns-query">>,
      <<"https", "://", "1.1.1.1", "/custom">>,
      <<"https", "://", "1.1.1.1", ":", "8443", "/dns-query">>,
      <<"1.1.1.1">>,
      <<"1.1.1.1", ":", "5353">>,
      <<"udp", "://", "1.1.1.1">> }

NoConn ==
    [pc |-> "start", entry |-> None, transport |-> None, dial |-> <<>>,
     reuse |-> FALSE, retry_count |-> 0, err |-> None]

Bail(c, why) == [c EXCEPT !.pc = "failed", !.err = why]

\* forward_dns_query calls resolve(&server[0], bytes)
ResolveStart ==
    /\ ~exited
    /\ conn.pc = "start"
    /\ LET r == Resolver(server)
           c == [conn EXCEPT !.entry = "resolve", !.transport = r.transport,
                             !.dial = r.dial]
       IN  conn' = IF ~r.built THEN Bail(c, "Url::parse")
                   ELSE [c EXCEPT !.pc = IF r.transport = "DoT" THEN "take" ELSE "connect"]
    /\ UNCHANGED <<server, pool, exited, notUp>>

\* DoT::new(target) on the server text itself, then DNSResolver::resolve
DoTNew ==
    /\ ~exited
    /\ conn.pc = "start"
    /\ starts_with(server, "tls")
    /\ LET r == UrlResolver("DoT", server)
           c == [conn EXCEPT !.entry = "DoT::new", !.transport = "DoT", !.dial = r.dial]
       IN  conn' = IF ~r.built THEN Bail(c, "Url::parse") ELSE [c EXCEPT !.pc = "take"]
    /\ UNCHANGED <<server, pool, exited, notUp>>

\* DoT::take: a pooled stream of the target, or a new connection
Take ==
    /\ ~exited
    /\ conn.pc = "take"
    /\ IF pool > 0 /\ conn.dial # <<>>
       THEN /\ pool' = pool - 1
            /\ conn' = [conn EXCEPT !.reuse = TRUE, !.pc = "probe"]
       ELSE /\ pool' = pool
            /\ conn' = [conn EXCEPT !.reuse = FALSE, !.pc = "connect"]
    /\ UNCHANGED <<server, exited, notUp>>

\* the loop of DoT::resolve on a reused stream: a read of 0 bytes within
\* 100 ms means the peer closed it, and another stream is taken
Probe(closed) ==
    /\ ~exited
    /\ conn.pc = "probe"
    /\ conn' = IF conn.retry_count > MaxRetry THEN Bail(conn, "no available stream")
               ELSE IF ~closed THEN [conn EXCEPT !.pc = "write"]
               ELSE IF pool > 0
               THEN [conn EXCEPT !.retry_count = @ + 1]
               ELSE [conn EXCEPT !.reuse = FALSE, !.pc = "connect"]
    /\ pool' = IF conn.retry_count <= MaxRetry /\ closed /\ pool > 0 THEN pool - 1 ELSE pool
    /\ UNCHANGED <<server, exited, notUp>>

\* UdpSocket::bind, or build_tcp_stream and wrap_tls_stream
Connect(ok) ==
    /\ ~exited
    /\ conn.pc = "connect"
    /\ conn' = IF conn.dial = <<>> THEN Bail(conn, "Missing host")
               ELSE IF ~ok THEN Bail(conn, "connect")
               ELSE [conn EXCEPT !.pc = "write"]
    /\ UNCHANGED <<server, pool, exited, notUp>>

\* send_to, or write_all and flush
Write(ok) ==
    /\ ~exited
    /\ conn.pc = "write"
    /\ conn' = IF ~ok THEN Bail(conn, "write")
               ELSE [conn EXCEPT !.pc = IF conn.transport = "UDP" THEN "body" ELSE "head"]
    /\ UNCHANGED <<server, pool, exited, notUp>>

\* what follows a failed read of the two length bytes in DoT::resolve
ExitsOnFailedRead(transport) == transport = "DoT"

\* DoT: read_exact of the length prefix; DoH: Response::from_stream up to
\* the body, status being the status code read
ReadHead(ok, status) ==
    /\ ~exited
    /\ conn.pc = "head"
    /\ IF ~ok /\ ExitsOnFailedRead(conn.transport)
       THEN exited' = TRUE /\ conn' = conn
       ELSE /\ exited' = exited
            /\ conn' = IF ~ok THEN Bail(conn, "Unknown body length")
                       ELSE [conn EXCEPT !.pc = "body",
                                         !.err = IF conn.transport = "DoH" /\ status # 200
                                                 THEN "status" ELSE None]
    /\ UNCHANGED <<server, pool, notUp>>

\* recv_from, or read_exact of the body; then the status check of DoH, the
\* empty check and the enqueue of DoT
ReadBody(ok) ==
    /\ ~exited
    /\ conn.pc = "body"
    /\ conn' = IF ~ok THEN Bail(conn, "read")
               ELSE IF conn.err # None THEN Bail(conn, conn.err)
               ELSE [conn EXCEPT !.pc = "done"]
    /\ pool' = IF ok /\ conn.err = None /\ conn.transport = "DoT" /\ pool < MaxPool
               THEN pool + 1 ELSE pool
    /\ UNCHANGED <<server, exited, notUp>>

\* the sleep(self.timeout) branch of the select! in forward_dns_query
Timeout ==
    /\ ~exited
    /\ conn.entry = "resolve"
    /\ conn.pc \in {"take", "probe", "connect", "write", "head", "body"}
    /\ conn' = Bail(conn, "timeout")
    /\ UNCHANGED <<server, pool, exited, notUp>>

\* the next forward
NextForward ==
    /\ ~exited
    /\ conn.pc \in {"done", "failed"}
    /\ conn' = NoConn
    /\ UNCHANGED <<server, pool, exited, notUp>>

UpNext ==
    \/ ResolveStart
    \/ DoTNew
    \/ Take
    \/ \E closed \in BOOLEAN : Probe(closed)
    \/ \E ok \in BOOLEAN : Connect(ok)
    \/ \E ok \in BOOLEAN : Write(ok)
    \/ \E ok \in BOOLEAN, status \in {200, 500} : ReadHead(ok, status)
    \/ \E ok \in BOOLEAN : ReadBody(ok)
    \/ Timeout
    \/ NextForward

UpInit ==
    /\ server \in ServerTexts
    /\ conn = NoConn
    /\ pool = 0
    /\ exited = FALSE

UpIdle ==
    /\ server = <<"1.1.1.1">>
    /\ conn = NoConn
    /\ pool = 0
    /\ exited = FALSE

(***************************************************************************)
(* One exchange on a TCP stream: TcpServer::accept and the reply closure   *)
(* of TcpServer::run, src/server.rs.  Lengths are lengths in bytes.        *)
(***************************************************************************)
\* the largest u16
U16_MAX == 65535

\* n as u16
AsU16(n) == n % (U16_MAX + 1)

\* the bytes the encoding of a response message would take if nothing
\* limited it
Sizes == {12, 28, 45, 512, 4096, 65535, 65536, 65547, 131072}

\* the lengths of the requests a client frames
RequestSizes == {12, 28, 512}

Encoded(len) == [kind |-> "Ok", len |-> len]
EncodeErr == [kind |-> "Err", len |-> 0]

\* an encoder without a limit on the size of its buffer
WholeVec(size) == {Encoded(size)}

\* Message::to_vec: the encoder writes into a buffer limited to the
\* largest u16; a message that does not fit is cut short with fewer records
\* or is an error
to_vec_len(size) ==
    IF size <= U16_MAX THEN {Encoded(size)}
    ELSE {EncodeErr} \cup {Encoded(len) : len \in {l \in Sizes : l <= U16_MAX}}

NoExchange ==
    [pc |-> "accept", request |-> 0, size |-> 0, bytes |-> 0,
     prefix |-> <<>>, body |-> 0]

\* TcpServer::accept: the stream, the two length bytes and that many bytes
\* of request
TcpAccept(len, ok) ==
    /\ tcp.pc = "accept"
    /\ tcp' = IF ok THEN [tcp EXCEPT !.pc = "handle", !.request = AsU16(len)]
              ELSE [tcp EXCEPT !.pc = "closed"]
    /\ UNCHANGED notTcp

\* Handler::run up to send_ret: res.to_vec() of a response of some size
TcpRespond(size, vec) ==
    /\ tcp.pc = "handle"
    /\ vec \in to_vec_len(size)
    /\ tcp' = IF vec.kind = "Err" THEN [tcp EXCEPT !.pc = "closed", !.size = size]
              ELSE [tcp EXCEPT !.pc = "prefix", !.size = size, !.bytes = vec.len]
    /\ UNCHANGED notTcp

\* the reply closure: stream.write_all(&len_bytes)
TcpWritePrefix(ok) ==
    /\ tcp.pc = "prefix"
    /\ tcp' = IF ok THEN [tcp EXCEPT !.pc = "body", !.prefix = <<AsU16(tcp.bytes)>>]
              ELSE [tcp EXCEPT !.pc = "closed"]
    /\ UNCHANGED notTcp

\* the reply closure: stream.write_all(&bytes); written is what reached
\* the stream when the write failed
TcpWriteBody(ok, written) ==
    /\ tcp.pc = "body"
    /\ tcp' = IF ok THEN [tcp EXCEPT !.pc = "replied", !.body = tcp.bytes]
              ELSE [tcp EXCEPT !.pc = "closed",
                               !.body = IF written < tcp.bytes THEN written ELSE 0]
    /\ UNCHANGED notTcp

\* the stream is dropped with the task; the next accepted stream
TcpDrop ==
    /\ tcp.pc \in {"replied", "closed"}
    /\ tcp' = NoExchange
    /\ UNCHANGED notTcp

TcpNext ==
    \/ \E len \in RequestSizes, ok \in BOOLEAN : TcpAccept(len, ok)
    \/ \E size \in Sizes, vec \in UNION {to_vec_len(z) : z \in Sizes} : TcpRespond(size, vec)
    \/ \E ok \in BOOLEAN : TcpWritePrefix(ok)
    \/ \E ok \in BOOLEAN, written \in {0, 12} : TcpWriteBody(ok, written)
    \/ TcpDrop

TcpInit == tcp = NoExchange

(***************************************************************************)
(* Resolution::check_is_allow for a Pingable rule, with the mutex of       *)
(* PING_CACHE: src/config/resolution.rs.                                   *)
(***************************************************************************)
Checkers == 1..MaxCheckers

\* a call not yet made; saw is what the cache held for the address when the
\* call looked, probed whether the call has sent a ping
NoCheck ==
    [pc |-> "idle", addr |-> None, saw |-> <<>>, looked |-> FALSE,
     probed |-> FALSE, r |-> FALSE]

\* LruCache::get: the value, and the entry moves to the front
LruGet(c, k) == LruGetMut(c, k, LruVal(c, k))

\* a guard that lives on through the probe when the address was not cached
GuardKeptOnMiss(i, hit) == IF hit THEN 0 ELSE i

\* the guard at the end of the first block: dropped, by the return or by
\* the end of the block
GuardAfterLook(i, hit) == 0

\* check_is_allow is called for a Pingable rule and the address of an answer
CheckStart(i, addr) ==
    /\ checkers[i].pc = "idle"
    /\ checkers' = [checkers EXCEPT ![i] = [NoCheck EXCEPT !.pc = "lock", !.addr = addr]]
    /\ UNCHANGED <<guard, lru, notPing>>

\* ping_cache().await.lock().unwrap(), of the first and of the second block
Lock(i) ==
    /\ checkers[i].pc \in {"lock", "relock"}
    /\ guard = 0
    /\ guard' = i
    /\ checkers' = [checkers EXCEPT ![i].pc = IF @ = "lock" THEN "look" ELSE "put"]
    /\ UNCHANGED <<lru, notPing>>

\* the first block: guard.contains(addr), and on a hit the return of
\* *guard.get(addr).unwrap()
Look(i) ==
    /\ checkers[i].pc = "look"
    /\ guard = i
    /\ LET a == checkers[i].addr
           hit == LruContains(lru, a)
       IN  /\ lru' = IF hit THEN LruGet(lru, a) ELSE lru
           /\ guard' = GuardAfterLook(i, hit)
           /\ checkers' = [checkers EXCEPT
                  ![i].looked = TRUE,
                  ![i].saw = IF hit THEN <<LruVal(lru, a)>> ELSE <<>>,
                  ![i].r = IF hit THEN LruVal(lru, a) ELSE @,
                  ![i].pc = IF hit THEN "done" ELSE "ping"]
    /\ UNCHANGED notPing

\* ping_with_timeout(addr, 600 ms).await.is_ok()
Pinged(i, ok) ==
    /\ checkers[i].pc = "ping"
    /\ checkers' = [checkers EXCEPT ![i].probed = TRUE, ![i].r = ok, ![i].pc = "relock"]
    /\ UNCHANGED <<guard, lru, notPing>>

\* the second block: it.put(addr, r), and the return of r
Put(i) ==
    /\ checkers[i].pc = "put"
    /\ guard = i
    /\ lru' = LruPut(lru, PingCacheSize, checkers[i].addr, checkers[i].r)
    /\ guard' = 0
    /\ checkers' = [checkers EXCEPT ![i].pc = "done"]
    /\ UNCHANGED notPing

\* the call has returned; the task may make another
CheckReturn(i) ==
    /\ checkers[i].pc = "done"
    /\ checkers' = [checkers EXCEPT ![i] = NoCheck]
    /\ UNCHANGED <<guard, lru, notPing>>

PingNext ==
    \/ \E i \in Checkers, addr \in Addrs : CheckStart(i, addr)
    \/ \E i \in Checkers : Lock(i)
    \/ \E i \in Checkers : Look(i)
    \/ \E i \in Checkers, ok \in BOOLEAN : Pinged(i, ok)
    \/ \E i \in Checkers : Put(i)
    \/ \E i \in Checkers : CheckReturn(i)

PingInit ==
    /\ checkers = [i \in Checkers |-> NoCheck]
    /\ guard = 0
    /\ lru = <<>>

(***************************************************************************)
(* The pool of TLS streams and the probe loop of DoT::resolve:             *)
(* src/resolves/dot.rs.  A stream has an identity.                         *)
(* The probe of a reused stream reads nothing within the time allowed      *)
(* ("idle"), 0 bytes ("eof"), an error ("error"), or bytes the peer sent   *)
(* unasked ("data"), as the peer behaved while the stream was pooled.      *)
(***************************************************************************)
\* the stream identities: enough for the pool that makes the loop give up
MaxStreams == MaxRetry + 2
StreamIds == 1..MaxStreams
Resolvers == 1..MaxResolvers
Urls == {"tls://a", "tls://b"}
Conds == {"idle", "eof", "error", "data"}

\* a stream not built; place is "none", "pool", "held" or "dropped", or
\* "absent" for an identity that is not used
NoStream ==
    [place |-> "none", url |-> None, aligned |-> TRUE,
     exchanged |-> FALSE, probe |-> None, written |-> FALSE]

\* a stream as build_connect returns it
Fresh(url) == [NoStream EXCEPT !.place = "held", !.url = url]

\* a stream in the pool after one exchange
Pooled(url) == [NoStream EXCEPT !.place = "pool", !.url = url, !.exchanged = TRUE]

NoDot ==
    [pc |-> "off", target |-> None, stream |-> 0, reuse |-> FALSE,
     retry_count |-> 0, err |-> None]

\* an identity for a stream to be built
Unbuilt == {s \in StreamIds : streams[s].place = "none"}
NewId == CHOOSE s \in Unbuilt : \A t \in Unbuilt : s <= t

\* no call has ended the process
Running == \A r \in Resolvers : dots[r].pc # "exit"

\* a take that leaves the stream in the queue
KeepFront(q) == q

\* VecDeque::pop_front, what stays in the queue
PopFront(q) == Tail(q)

\* VecDeque::push_back
PushBack(q, s) == Append(q, s)

\* a dropped stream: what is remembered is its probe and whether a write
\* was made on it
Dropped(st) == [NoStream EXCEPT !.place = "dropped", !.probe = st.probe,
                                !.written = st.written]

\* the drop of the stream a call holds
DropHeld(r) ==
    IF dots[r].stream = 0 THEN streams
    ELSE [streams EXCEPT ![dots[r].stream] = Dropped(@)]

\* the memory of the stream a call dropped is given back
Forget(r) ==
    IF dots[r].stream = 0 THEN streams
    ELSE [streams EXCEPT ![dots[r].stream] = NoStream]

\* a call of DoT::resolve on a resolver for url
DotStart(r, url) ==
    /\ Running
    /\ dots[r].pc = "off"
    /\ dots' = [dots EXCEPT ![r] = [NoDot EXCEPT !.pc = "take", !.target = url]]
    /\ UNCHANGED <<streams, live_streams, notPool>>

\* DoT::take, the first of the call and the one in the loop: the front of
\* the queue of the target under the lock, else a connection is to be built;
\* the take in the loop counts a retry when the stream is a pooled one
DotTake(r) ==
    /\ Running
    /\ dots[r].pc \in {"take", "retake"}
    /\ LET q == live_streams[dots[r].target]
       IN  IF q # <<>>
           THEN /\ live_streams' = [live_streams EXCEPT ![dots[r].target] = PopFront(q)]
                /\ streams' = [Forget(r) EXCEPT ![Head(q)].place = "held"]
                /\ dots' = [dots EXCEPT
                       ![r].stream = Head(q),
                       ![r].reuse = IF dots[r].pc = "take" THEN TRUE ELSE @,
                       ![r].retry_count = IF dots[r].pc = "retake" THEN @ + 1 ELSE @,
                       ![r].pc = "probe"]
           ELSE /\ dots' = [dots EXCEPT
                       ![r].reuse = IF dots[r].pc = "take" THEN FALSE ELSE @,
                       ![r].pc = "build"]
                /\ UNCHANGED <<streams, live_streams>>
    /\ UNCHANGED notPool

\* build_connect: a new stream, or its error, which ends the call
DotBuild(r, ok) ==
    /\ Running
    /\ dots[r].pc = "build"
    /\ Unbuilt # {}
    /\ IF ok
       THEN /\ streams' = [Forget(r) EXCEPT ![NewId] = Fresh(dots[r].target)]
            /\ dots' = [dots EXCEPT ![r].stream = NewId, ![r].pc = "write"]
       ELSE /\ streams' = streams
            /\ dots' = [dots EXCEPT ![r].pc = "failed", ![r].err = "connect"]
    /\ UNCHANGED <<live_streams, notPool>>

\* the retries after which the loop gives up
GivesUp(retry_count) == retry_count > MaxRetry

\* one turn of the loop on a reused stream: the check of retry_count, then
\* the read of up to 2 bytes within 100 ms, which gives res; Ok(Ok(0)) drops
\* the stream for another, everything else leaves the loop with the stream
DotProbe(r, res) ==
    /\ Running
    /\ dots[r].pc = "probe"
    /\ LET s == dots[r].stream
       IN  IF GivesUp(dots[r].retry_count)
           THEN /\ dots' = [dots EXCEPT ![r].pc = "failed",
                                        ![r].err = "no available stream"]
                /\ streams' = DropHeld(r)
           ELSE IF res = "eof"
           THEN /\ dots' = [dots EXCEPT ![r].pc = "retake"]
                /\ streams' = [streams EXCEPT ![s] = Dropped([@ EXCEPT !.probe = "eof"])]
           ELSE /\ dots' = [dots EXCEPT ![r].pc = "write"]
                /\ streams' = [streams EXCEPT
                       ![s].probe = res,
                       ![s].aligned = IF res = "data" THEN FALSE ELSE @]
    /\ UNCHANGED <<live_streams, notPool>>

\* write_all of the length and of the query, and flush; a write on a
\* stream whose read gave an error fails
DotWrite(r, ok) ==
    /\ Running
    /\ dots[r].pc = "write"
    /\ streams[dots[r].stream].probe = "error" => ~ok
    /\ IF ok
       THEN /\ streams' = [streams EXCEPT ![dots[r].stream].written = TRUE]
            /\ dots' = [dots EXCEPT ![r].pc = "read"]
       ELSE /\ streams' = [streams EXCEPT
                   ![dots[r].stream] = Dropped([@ EXCEPT !.written = TRUE])]
            /\ dots' = [dots EXCEPT ![r].pc = "failed", ![r].err = "write"]
    /\ UNCHANGED <<live_streams, notPool>>

\* read_exact of the two length bytes and of the response: a failed read
\* of the length ends the process and with it every call and stream, a
\* failed read of the response or an empty response ends the call
DotRead(r, res) ==
    /\ Running
    /\ dots[r].pc = "read"
    /\ IF res = "length"
       THEN /\ dots' = [q \in Resolvers |-> [NoDot EXCEPT !.pc = "exit"]]
            /\ streams' = [s \in StreamIds |-> NoStream]
       ELSE IF res = "response"
       THEN /\ dots' = [dots EXCEPT ![r].pc = "failed", ![r].err = res]
            /\ streams' = DropHeld(r)
       ELSE /\ dots' = [dots EXCEPT ![r].pc = "enqueue"]
            /\ streams' = [streams EXCEPT ![dots[r].stream].exchanged = TRUE]
    /\ live_streams' = IF res = "length" THEN [u \in Urls |-> <<>>] ELSE live_streams
    /\ UNCHANGED notPool

\* DoT::enqueue: the stream goes to the back of the queue of the target
DotEnqueue(r) ==
    /\ Running
    /\ dots[r].pc = "enqueue"
    /\ live_streams' = [live_streams EXCEPT
           ![dots[r].target] = PushBack(@, dots[r].stream)]
    /\ streams' = [streams EXCEPT
           ![dots[r].stream] = [Pooled(dots[r].target) EXCEPT !.aligned = streams[dots[r].stream].aligned]]
    /\ dots' = [dots EXCEPT ![r].pc = "done", ![r].stream = 0]
    /\ UNCHANGED notPool

\* the call has returned
DotReturn(r) ==
    /\ Running
    /\ dots[r].pc \in {"done", "failed"}
    /\ dots' = [dots EXCEPT ![r] = NoDot]
    /\ streams' = Forget(r)
    /\ UNCHANGED <<live_streams, notPool>>

PoolNext ==
    \/ \E r \in Resolvers, url \in Urls : DotStart(r, url)
    \/ \E r \in Resolvers : DotTake(r)
    \/ \E r \in Resolvers, ok \in BOOLEAN : DotBuild(r, ok)
    \/ \E r \in Resolvers, res \in Conds : DotProbe(r, res)
    \/ \E r \in Resolvers, ok \in BOOLEAN : DotWrite(r, ok)
    \/ \E r \in Resolvers, res \in {"ok", "length", "response"} : DotRead(r, res)
    \/ \E r \in Resolvers : DotEnqueue(r)
    \/ \E r \in Resolvers : DotReturn(r)

\* a pool of n streams of the first target, left there by n earlier calls
\* that ran at the same time; the identities in use are 1..ids and the
\* calls that run are 1..calls
PoolOf(n, ids, calls) ==
    /\ streams = [s \in StreamIds |->
                    IF s <= n THEN Pooled("tls://a")
                    ELSE IF s <= ids THEN NoStream
                    ELSE [NoStream EXCEPT !.place = "absent"]]
    /\ live_streams = [u \in Urls |-> IF u = "tls://a" THEN [i \in 1..n |-> i] ELSE <<>>]
    /\ dots = [r \in Resolvers |-> IF r <= calls THEN NoDot ELSE [NoDot EXCEPT !.pc = "never"]]

\* the process after start: no stream yet
PoolIdle == PoolOf(0, MaxStreams, MaxResolvers)

\* calls that run at the same time, over a pool of at most one stream
PoolInit == \E n \in 0..1 : PoolOf(n, MaxResolvers, MaxResolvers)

\* one call over the pool a burst of calls left
ProbeInit == \E n \in 0..MaxStreams : PoolOf(n, MaxStreams, 1)

(***************************************************************************)
(* The HTTP/1.1 response parser: src/resolves/http/h1.rs.  A stream is a   *)
(* sequence of tokens, each a run of characters the parser treats alike;   *)
(* "b" is one byte of body.  Strings are sequences of tokens.              *)
(***************************************************************************)
PROTOCOL == <<"HTTP">>
VERSION == <<"1.1">>
CR == "\\r"
LF == "\\n"
SP == " "

\* the runs of 'A'..='Z', of '0'..='9', and of '0'..='9' | '.'
UpperRuns == {"HTTP", "SPDY"}
DigitRuns == {"200", "500", "0", "2", "70000"}
VersionRuns == DigitRuns \cup {"1.1", "2.0"}

StatusLine(proto, ver, code) == <<proto, "/", ver, SP, code, SP, "OK", CR, LF>>
Header(name, value) == <<name, ":", SP, value, CR, LF>>
Blank == <<CR, LF>>
Body(n) == [i \in 1..n |-> "b"]

\* the streams of the model: well-formed responses, and malformed or
\* truncated ones
HttpStreams ==
    { StatusLine("HTTP", "1.1", "200") \o Header("content-length", "2") \o Blank \o Body(2),
      StatusLine("HTTP", "1.1", "500") \o Header("Content-Length", "2") \o Blank \o Body(2),
      StatusLine("HTTP", "1.1", "200") \o Header("x", "0") \o Header("content-length", "2")
          \o Blank \o Body(3),
      StatusLine("HTTP", "1.1", "200") \o Header("content-length", "0") \o Blank,
      StatusLine("HTTP", "2.0", "200") \o Header("content-length", "2") \o Blank \o Body(2),
      StatusLine("SPDY", "1.1", "200") \o Header("content-length", "2") \o Blank \o Body(2),
      StatusLine("HTTP", "1.1", "200") \o Header("x", "2") \o Blank \o Body(2),
      StatusLine("HTTP", "1.1", "200") \o Header("content-length", "70000") \o Blank \o Body(2),
      StatusLine("HTTP", "1.1", "200") \o Header("content-length", "abc") \o Blank \o Body(2),
      StatusLine("HTTP", "1.1", "70000") \o Header("content-length", "2") \o Blank \o Body(2),
      StatusLine("HTTP", "1.1", "200") \o Header("content-length", "2") \o Blank \o Body(1),
      StatusLine("HTTP", "1.1", "200") \o Header("content-length", "2"),
      StatusLine("HTTP", "1.1", "200") \o Header("content-length", "0"),
      <<"HTTP", "/", "1.1", SP, "200">>,
      <<>> }

\* String::to_lowercase over the header names of the model
to_lowercase(name) ==
    [i \in 1..Len(name) |-> IF name[i] = "Content-Length" THEN "content-length" ELSE name[i]]

RECURSIVE trim_start(_)
trim_start(v) == IF v # <<>> /\ v[1] = SP THEN trim_start(Tail(v)) ELSE v
RECURSIVE trim_end(_)
trim_end(v) == IF v # <<>> /\ v[Len(v)] = SP THEN trim_end(SubSeq(v, 1, Len(v) - 1)) ELSE v
\* str::trim
trim(v) == trim_end(trim_start(v))

\* str::parse::<u16>: <<n>>, or <<>> for an error
ParseU16(v) ==
    IF Len(v) = 1 /\ v[1] \in DigitRuns \ {"70000"}
    THEN <<CASE v[1] = "0" -> 0 [] v[1] = "2" -> 2 [] v[1] = "200" -> 200 [] v[1] = "500" -> 500>>
    ELSE <<>>

\* headers.get(name): the value inserted last under the name, or <<>>
HeaderGet(headers, name) ==
    LET at == {i \in 1..Len(headers) : headers[i].name = name}
    IN  IF at = {} THEN <<>>
        ELSE <<headers[CHOOSE i \in at : \A j \in at : j <= i].value>>

NoParse ==
    [state |-> "Idle", input |-> <<>>, rest |-> <<>>, protocol |-> <<>>,
     version |-> <<>>, status_code |-> <<>>, header_name |-> <<>>,
     header_value |-> <<>>, headers |-> <<>>, trail |-> <<>>, read |-> 0,
     result |-> None]

\* the parser in state st, st added to the trail when it is a new state
Goto(h, st) ==
    [h EXCEPT !.state = st,
              !.trail = IF h.state = st THEN @ ELSE Append(@, st)]

HttpBail(h) == [Goto(h, "Returned") EXCEPT !.result = "Err"]

\* next(): the character read, dropped from the stream
Skip(h) == [h EXCEPT !.rest = IF @ = <<>> THEN @ ELSE Tail(@)]

\* Response::from_stream is called on a stream
HttpStart(input) ==
    /\ http.state = "Idle"
    /\ http' = [Goto(NoParse, "Protocol") EXCEPT !.input = input, !.rest = input]
    /\ UNCHANGED notHttp

\* the loop leaves at the end of the stream whatever the state
EndOfStream(h) == Goto(h, "Body")

\* one turn of the while loop: next() and the match on the state
HttpNext ==
    /\ http.state \in {"Protocol", "Version", "StatusCode", "StatusText",
                       "HeaderName", "HeaderValue"}
    /\ LET h == Skip(http)
           char == http.rest[1]
       IN  http' =
             IF http.rest = <<>> THEN EndOfStream(http)
             ELSE CASE http.state = "Protocol" ->
                       IF char \in UpperRuns THEN [h EXCEPT !.protocol = Append(@, char)]
                       ELSE IF char = "/"
                            THEN IF h.protocol # PROTOCOL THEN HttpBail(h)
                                 ELSE Goto(h, "Version")
                       ELSE HttpBail(h)
                  [] http.state = "Version" ->
                       IF char \in VersionRuns THEN [h EXCEPT !.version = Append(@, char)]
                       ELSE IF char = SP
                            THEN IF h.version # VERSION THEN HttpBail(h)
                                 ELSE Goto(h, "StatusCode")
                       ELSE HttpBail(h)
                  [] http.state = "StatusCode" ->
                       IF char \in DigitRuns THEN [h EXCEPT !.status_code = Append(@, char)]
                       ELSE IF char = SP THEN Goto(h, "StatusText")
                       ELSE HttpBail(h)
                  [] http.state = "StatusText" ->
                       IF char = CR THEN Goto(Skip(h), "HeaderName") ELSE h
                  [] http.state = "HeaderName" ->
                       IF char = CR THEN Goto(Skip(h), "Body")
                       ELSE IF char = ":" THEN Goto(h, "HeaderValue")
                       ELSE [h EXCEPT !.header_name = Append(@, char)]
                  [] http.state = "HeaderValue" ->
                       IF char = CR
                       THEN [Goto(Skip(h), "HeaderName") EXCEPT
                                !.headers = Append(@, [name |-> to_lowercase(h.header_name),
                                                       value |-> trim(h.header_value)]),
                                !.header_name = <<>>,
                                !.header_value = <<>>]
                       ELSE [h EXCEPT !.header_value = Append(@, char)]
    /\ UNCHANGED notHttp

\* after the loop: the content-length, read_exact of the body, and the
\* parse of the status code
HttpBody ==
    /\ http.state = "Body"
    /\ LET got == HeaderGet(http.headers, <<"content-length">>)
           length == IF got = <<>> THEN <<>> ELSE ParseU16(got[1])
       IN  http' =
             IF length = <<>> THEN HttpBail(http)
             ELSE IF Len(http.rest) < length[1] THEN HttpBail(http)
             ELSE IF ParseU16(http.status_code) = <<>>
                  THEN [HttpBail(http) EXCEPT !.read = length[1]]
             ELSE [Goto(http, "Returned") EXCEPT
                      !.read = length[1],
                      !.rest = SubSeq(@, length[1] + 1, Len(@)),
                      !.result = "Ok"]
    /\ UNCHANGED notHttp

\* the caller has the result; the next stream
HttpDrop ==
    /\ http.state = "Returned"
    /\ http' = NoParse
    /\ UNCHANGED notHttp

HttpParseNext ==
    \/ \E input \in HttpStreams : HttpStart(input)
    \/ HttpNext
    \/ HttpBody
    \/ HttpDrop

HttpInit == http = NoParse

(***************************************************************************)
(* ICMP echo probes: src/ping.rs.  ACC_SEQ is the process-wide sequence    *)
(* counter; a pinger is one call of ping_with_timeout with a raw socket of *)
(* its own, whose inbox holds the ICMP packets the host has received since *)
(* the socket was opened.                                                  *)
(***************************************************************************)
Pingers == 1..MaxPingers
PingAddrs == {"127.0.0.1", "199.0.0.0"}
\* the addresses that answer an echo request
Answering == {"127.0.0.1"}

\* (std::process::id() % 0xFF) as u16
IdOf(process_id) == (process_id % 255) % (U16_MAX + 1)
Id == IdOf(ProcessId)

NoSeq == [guard |-> 1, holder |-> <<>>, issued |-> 0, last |-> <<>>]
NoPing ==
    [pc |-> "idle", seq |-> <<>>, addr |-> <<>>, inbox |-> <<>>,
     arrived |-> FALSE, outcome |-> None]

\* the lock of ACC_SEQ is given to whoever asks
Shared(acc) == TRUE

\* Mutex::lock returns when no one holds the guard
Unlocked(acc) == acc.holder = <<>>

\* if *guard == u16::MAX - 1 { *guard = 1 } else { *guard += 1 }
BumpSeq(g) == IF g = U16_MAX - 1 THEN 1 ELSE g + 1

\* the allocations are counted modulo the length of the cycle
SeqPeriod == U16_MAX - 1

\* acc_seq from the read of the guard to its release: seq is returned
Allocated(acc, seq) ==
    [guard |-> BumpSeq(acc.guard), holder |-> <<>>,
     issued |-> (acc.issued + 1) % SeqPeriod, last |-> <<seq>>]

\* ping_with_timeout is called and waits for the lock of ACC_SEQ
SeqCall(p) ==
    /\ pingers[p].pc = "idle"
    /\ pingers' = [pingers EXCEPT ![p].pc = "acc_seq"]
    /\ UNCHANGED <<ACC_SEQ, notIcmp>>

\* the lock is taken and the guard is read
SeqLock(p) ==
    /\ pingers[p].pc = "acc_seq"
    /\ Unlocked(ACC_SEQ)
    /\ ACC_SEQ' = [ACC_SEQ EXCEPT !.holder = <<p>>]
    /\ pingers' = [pingers EXCEPT ![p].pc = "locked", ![p].seq = <<ACC_SEQ.guard>>]
    /\ UNCHANGED notIcmp

\* the guard is advanced and released; acc_seq returns
SeqReturn(p) ==
    /\ pingers[p].pc = "locked"
    /\ ACC_SEQ' = Allocated(ACC_SEQ, pingers[p].seq[1])
    /\ pingers' = [pingers EXCEPT ![p] = NoPing]
    /\ UNCHANGED notIcmp

SeqNext ==
    \E p \in Pingers :
        \/ SeqCall(p)
        \/ SeqLock(p)
        \/ SeqReturn(p)

\* an ICMP packet, without the IP header: type, code, id, sequence number
\* and length
EchoReply(id, seq) == [type |-> 0, code |-> 0, id |-> id, seq |-> seq, len |-> 40]
Unreachable == [type |-> 3, code |-> 1, id |-> 0, seq |-> 0, len |-> 36]
Short == [type |-> 0, code |-> 0, id |-> 0, seq |-> 0, len |-> 4]

\* the echo requests that are on their way or answered
Requested == {q \in Pingers : pingers[q].pc \in {"recv", "done"}}

\* what the host can receive: the replies to the requests of this process,
\* the reply to a request of another process, and other ICMP traffic
Incoming ==
    {EchoReply(Id, pingers[q].seq[1]) : q \in {r \in Requested : pingers[r].addr[1] \in Answering}}
        \cup {EchoReply(Id + 1, 1), Unreachable, Short}

\* is_icmp_echo_reply: "panic" stands for the index out of bounds
is_icmp_echo_reply(packet, id, req) ==
    IF ~(packet.len >= 4 /\ packet.type \in {0, 129} /\ packet.code = 0) THEN "false"
    ELSE IF packet.len < 8 THEN "panic"
    ELSE IF packet.id = id /\ packet.seq = req THEN "true"
    ELSE "false"

\* ping_with_timeout up to send_to: the sequence number, the socket, the
\* echo request
PingSend(p, addr) ==
    /\ pingers[p].pc = "idle"
    /\ Unlocked(ACC_SEQ)
    /\ ACC_SEQ.guard <= MaxSeq
    /\ ACC_SEQ' = Allocated(ACC_SEQ, ACC_SEQ.guard)
    /\ pingers' = [pingers EXCEPT ![p] =
                     [NoPing EXCEPT !.pc = "recv", !.seq = <<ACC_SEQ.guard>>,
                                    !.addr = <<addr>>]]
    /\ UNCHANGED notIcmp

\* the host receives an ICMP packet before the read timeout: every open raw
\* socket gets it
Arrive(p) ==
    /\ pingers[p].pc = "recv"
    /\ Len(pingers[p].inbox) < MaxInbox
    /\ \E packet \in Incoming :
          /\ packet = EchoReply(Id, pingers[p].seq[1]) => ~pingers[p].arrived
          /\ pingers' = [pingers EXCEPT
                           ![p].inbox = Append(@, packet),
                           ![p].arrived = @ \/ packet = EchoReply(Id, pingers[p].seq[1])]
    /\ UNCHANGED <<ACC_SEQ, notIcmp>>

\* recv_from returns the first packet of the socket
PingRecv(p) ==
    /\ pingers[p].pc = "recv"
    /\ pingers[p].inbox # <<>>
    /\ LET r == is_icmp_echo_reply(Head(pingers[p].inbox), Id, pingers[p].seq[1])
       IN  pingers' = [pingers EXCEPT
                         ![p].pc = "done",
                         ![p].outcome = CASE r = "true" -> "Ok"
                                          [] r = "false" -> "Err"
                                          [] r = "panic" -> "Panic"]
    /\ UNCHANGED <<ACC_SEQ, notIcmp>>

\* recv_from fails with the read timeout
PingTimeout(p) ==
    /\ pingers[p].pc = "recv"
    /\ pingers[p].inbox = <<>>
    /\ pingers' = [pingers EXCEPT ![p].pc = "done", ![p].outcome = "Err"]
    /\ UNCHANGED <<ACC_SEQ, notIcmp>>

\* the caller has the outcome
PingDrop(p) ==
    /\ pingers[p].pc = "done"
    /\ pingers' = [pingers EXCEPT ![p] = NoPing]
    /\ UNCHANGED <<ACC_SEQ, notIcmp>>

IcmpNext ==
    \E p \in Pingers :
        \/ \E addr \in PingAddrs : PingSend(p, addr)
        \/ Arrive(p)
        \/ PingRecv(p)
        \/ PingTimeout(p)
        \/ PingDrop(p)

IcmpInit ==
    /\ ACC_SEQ = NoSeq
    /\ pingers = [p \in Pingers |-> NoPing]

(***************************************************************************)
(* The permit of a request: src/server.rs, with the ways a handler task    *)
(* ends told apart.  An acceptor loop takes a permit, waits in select! and *)
(* moves the permit into the task it spawns.                               *)
(***************************************************************************)
\* the two acceptors
Transports == {"udp", "tcp"}

\* how a handler task ends: Handler::run returned Ok, returned an error that
\* is logged, or panicked (todo!() of cache_dns_record, an index out of
\* bounds)
Ends == {"completion", "error", "panic"}

NoPermits == [free |-> MAX_CONNECTIONS, cancelled |-> FALSE, back |-> {}]
NoRun == [pc |-> "acquire", spawned |-> 0]

\* a panic that takes the permit with it
KeptOnPanic(how) == IF how = "panic" THEN 0 ELSE 1

\* drop(permit) at the end of the task, or the drop of the task's future
\* when handler.run unwinds: the permit goes back
DropPermit(how) == 1

\* limit_connections.clone().acquire_owned().await
PermitAcquire(t) ==
    /\ runs[t].pc = "acquire"
    /\ semaphore.free > 0
    /\ semaphore' = [semaphore EXCEPT !.free = @ - 1]
    /\ runs' = [runs EXCEPT ![t].pc = "select"]
    /\ UNCHANGED notPermit

\* select!: accept() returned a request; join_set.spawn moves the permit
\* into the task
PermitSpawn(t) ==
    /\ runs[t].pc = "select"
    /\ runs' = [runs EXCEPT ![t].pc = "acquire", ![t].spawned = @ + 1]
    /\ UNCHANGED <<semaphore, notPermit>>

\* select!: accept() returned an error; continue drops the permit
PermitAcceptError(t) ==
    /\ runs[t].pc = "select"
    /\ semaphore' = [semaphore EXCEPT !.free = @ + 1,
                                      !.back = @ \cup {"accept error"}]
    /\ runs' = [runs EXCEPT ![t].pc = "acquire"]
    /\ UNCHANGED notPermit

\* the handler task ends
HandlerEnd(t, how) ==
    /\ runs[t].spawned > 0
    /\ semaphore' = [semaphore EXCEPT !.free = @ + DropPermit(how),
                                      !.back = @ \cup {how}]
    /\ runs' = [runs EXCEPT ![t].spawned = @ - 1]
    /\ UNCHANGED notPermit

\* shutdown_signal.cancel()
PermitCancel ==
    /\ ~semaphore.cancelled
    /\ semaphore' = [semaphore EXCEPT !.cancelled = TRUE]
    /\ UNCHANGED <<runs, notPermit>>

\* select!: cancelled() won; break drops the permit, and run() returns and
\* drops its JoinSet, which aborts the tasks and drops their permits
PermitBreak(t) ==
    /\ runs[t].pc = "select"
    /\ semaphore.cancelled
    /\ semaphore' = [semaphore EXCEPT
                        !.free = @ + 1 + runs[t].spawned,
                        !.back = @ \cup {"shutdown"}
                                   \cup IF runs[t].spawned > 0 THEN {"abort"} ELSE {}]
    /\ runs' = [runs EXCEPT ![t] = [pc |-> "exited", spawned |-> 0]]
    /\ UNCHANGED notPermit

PermitNext ==
    \/ \E t \in Transports :
          \/ PermitAcquire(t)
          \/ PermitSpawn(t)
          \/ PermitAcceptError(t)
          \/ \E how \in Ends : HandlerEnd(t, how)
          \/ PermitBreak(t)
    \/ PermitCancel

PermitInit ==
    /\ semaphore = NoPermits
    /\ runs = [t \in Transports |-> NoRun]

(***************************************************************************)
(* The configuration a request sees: src/server.rs and src/handler.rs.     *)
(* A snapshot is known by its generation: 1 for the one loaded at start,   *)
(* one more for each reload().  A stage that has not run has read <<>>.    *)
(***************************************************************************)
Stagers == 1..MaxHandlers
QueryTypes == {"A", "AAAA"}

NoRequest ==
    [pc |-> "idle", qtype |-> <<>>, attributed |-> <<>>, hosts |-> <<>>,
     server |-> <<>>, rules |-> <<>>]

\* self.config.access(): the snapshot that is published now
Accessed(current, req) == <<current>>

\* the acceptor: config.access().attribute_group(&addr.ip()), Handler::new
\* with the group and the Arc<Config>, spawn
StageAccept(r, qtype) ==
    /\ requests[r].pc = "idle"
    /\ requests' = [requests EXCEPT ![r] =
                      [NoRequest EXCEPT !.pc = "hosts", !.qtype = <<qtype>>,
                                        !.attributed = <<published>>]]
    /\ UNCHANGED <<published, notStage>>

\* resolve_from_hosts: config.access().get_hosts(&self.group, &name); with
\* an answer the reply is sent, else the request goes on (the cache stage
\* reads no configuration)
StageHosts(r, found) ==
    /\ requests[r].pc = "hosts"
    /\ requests' = [requests EXCEPT
                      ![r].hosts = Accessed(published, requests[r]),
                      ![r].pc = IF found THEN "done" ELSE "forward"]
    /\ UNCHANGED <<published, notStage>>

\* forward_dns_query: config.access().get_server(&self.group) and the
\* exchange with server[0]; the AAAA rules follow for an AAAA query
StageForward(r, ok) ==
    /\ requests[r].pc = "forward"
    /\ requests' = [requests EXCEPT
                      ![r].server = Accessed(published, requests[r]),
                      ![r].pc = IF ok /\ requests[r].qtype = <<"AAAA">>
                                THEN "resolution" ELSE "done"]
    /\ UNCHANGED <<published, notStage>>

\* resolution: config.access(), cloned into every is_allow_ipv6 task
StageResolution(r) ==
    /\ requests[r].pc = "resolution"
    /\ requests' = [requests EXCEPT
                      ![r].rules = Accessed(published, requests[r]),
                      ![r].pc = "done"]
    /\ UNCHANGED <<published, notStage>>

\* Handler::run has returned
StageDone(r) ==
    /\ requests[r].pc = "done"
    /\ requests' = [requests EXCEPT ![r] = NoRequest]
    /\ UNCHANGED <<published, notStage>>

\* the signal task: config.reload() swaps a new snapshot in
StageReload ==
    /\ published < MaxSnapshots
    /\ published' = published + 1
    /\ UNCHANGED <<requests, notStage>>

StageNext ==
    \/ \E r \in Stagers :
          \/ \E qtype \in QueryTypes : StageAccept(r, qtype)
          \/ \E found \in BOOLEAN : StageHosts(r, found)
          \/ \E ok \in BOOLEAN : StageForward(r, ok)
          \/ StageResolution(r)
          \/ StageDone(r)
    \/ StageReload

StageInit ==
    /\ published = 1
    /\ requests = [r \in Stagers |-> NoRequest]

(***************************************************************************)
(* The logs: src/logs/mod.rs, src/logs/log_writer.rs and                   *)
(* src/logs/seq_layer.rs, with file sinks.  A message is known by its span *)
(* and its place in the span; a line of a file also tells the file its     *)
(* writer was made for.                                                    *)
(***************************************************************************)
ACCESS_LOG == "/var/log/pomelo/access.log"
ERROR_LOG == "/var/log/pomelo/error.log"
LogPaths == {ACCESS_LOG, ERROR_LOG}
Levels == {"INFO", "ERROR"}
Spans == 1..MaxSpans

\* the file writers registry_logs makes, in its order: the one of the error
\* layer, then the access and the error writer of the sequential layer
Plan ==
    <<[role |-> "fmt", path |-> ERROR_LOG],
      [role |-> "access", path |-> ACCESS_LOG],
      [role |-> "error", path |-> ERROR_LOG]>>

\* LogWriter::new: the root writer has id 0, the task's map is empty
NoLogger ==
    [id |-> 0, made |-> <<>>, tasks |-> <<>>, map |-> <<>>,
     files |-> [f \in LogPaths |-> <<>>]]
NoSpan == [pc |-> "none", messages |-> <<>>, is_error |-> FALSE]

\* let id = self.id + 1
NextId(self_id, made) == self_id + 1

\* HashMap::insert, the map as a sequence of (id, path) with one entry per id
MapInsert(map, id, path) ==
    LET kept == SelectSeq(map, LAMBDA e : e.id # id)
    IN  Append(kept, [id |-> id, path |-> path])

\* HashMap::get: <<path>> or <<>>
Get(map, id) ==
    LET at == {i \in 1..Len(map) : map[i].id = id}
    IN  IF at = {} THEN <<>> ELSE <<map[CHOOSE i \in at : TRUE].path>>

\* the writer registry_logs made for a role
WriterOf(role) ==
    logger.made[CHOOSE i \in 1..Len(logger.made) : logger.made[i].role = role]

\* registry_logs: the next create_file_writer on the root writer, which
\* sends AddFile
create_file_writer ==
    /\ Len(logger.made) < Len(Plan)
    /\ LET next == Plan[Len(logger.made) + 1]
           id == NextId(logger.id, logger.made)
       IN  logger' = [logger EXCEPT
                        !.made = Append(@, [role |-> next.role, id |-> id,
                                            path |-> next.path]),
                        !.tasks = Append(@, [task |-> "AddFile", id |-> id,
                                             path |-> next.path])]
    /\ UNCHANGED <<logs, notLogs>>

\* the task of LogWriter::new takes the next LogTask of the channel
LogTaskNext ==
    /\ logger.tasks # <<>>
    /\ LET t == Head(logger.tasks)
           file == Get(logger.map, t.id)
       IN  logger' =
             [logger EXCEPT
                !.tasks = Tail(@),
                !.map = IF t.task = "AddFile" THEN MapInsert(@, t.id, t.path) ELSE @,
                !.files = IF t.task = "Write" /\ file # <<>>
                          THEN [@ EXCEPT ![file[1]] = Append(@, t.buf)]
                          ELSE @]
    /\ UNCHANGED <<logs, notLogs>>

\* on_new_span, once the subscriber is set
on_new_span(s) ==
    /\ Len(logger.made) = Len(Plan)
    /\ logs[s].pc = "none"
    /\ logs' = [logs EXCEPT ![s].pc = "open"]
    /\ UNCHANGED <<logger, notLogs>>

\* on_event inside span s
on_event(s, level) ==
    /\ logs[s].pc = "open"
    /\ Len(logs[s].messages) < MaxEvents
    /\ logs' = [logs EXCEPT
                  ![s].is_error = @ \/ level = "ERROR",
                  ![s].messages = Append(@, Len(@) + 1)]
    /\ UNCHANGED <<logger, notLogs>>

\* write_messages through a Writer of w: one LogTask::Write per message
Writes(w, s, messages, is_error) ==
    [i \in 1..Len(messages) |->
        [task |-> "Write", id |-> w.id,
         buf |-> [span |-> s, n |-> messages[i], is_error |-> is_error,
                  made_for |-> w.path]]]

\* on_close: the span leaves logs and its messages go to the error writer
\* or to the access writer, all under the lock of logs
on_close(s) ==
    /\ logs[s].pc = "open"
    /\ LET w == IF logs[s].is_error THEN WriterOf("error") ELSE WriterOf("access")
       IN  logger' = [logger EXCEPT
                        !.tasks = @ \o Writes(w, s, logs[s].messages, logs[s].is_error)]
    /\ logs' = [logs EXCEPT ![s] = [NoSpan EXCEPT !.pc = "closed"]]
    /\ UNCHANGED notLogs

LogsNext ==
    \/ create_file_writer
    \/ LogTaskNext
    \/ \E s \in Spans :
          \/ on_new_span(s)
          \/ \E level \in Levels : on_event(s, level)
          \/ on_close(s)

LogsInit ==
    /\ logger = NoLogger
    /\ logs = [s \in Spans |-> NoSpan]

(***************************************************************************)
(* The acceptors and shutdown: src/server.rs.  A handler task is taken as  *)
(* a whole here: it runs until Handler::run returns, or it is aborted.     *)
(***************************************************************************)
\* the tasks of run_until_done's JoinSet besides the two acceptors
CTRL_C == "ctrl_c"
SIGNALS == "signals"

\* an acquire that takes no permit from the semaphore
acquire_unmetered(permits) == permits

\* Semaphore::acquire_owned once a permit is available: one permit is taken
acquire_owned(permits) == permits - 1

\* the acceptor loop waits for a permit before it reads anything
Acquire(t) ==
    /\ main = "join_next"
    /\ acceptors[t] = "acquire"
    /\ limit_connections > 0
    /\ limit_connections' = acquire_owned(limit_connections)
    /\ acceptors' = [acceptors EXCEPT ![t] = "select"]
    /\ UNCHANGED <<shutdown_signal, inflight, abortedHandlers, join_set, signals,
                   main, capAtCancel, notServer>>

\* select!: accept() returned a request; the handler is spawned into the
\* acceptor's JoinSet with the permit, and the loop starts over
Accept(t) ==
    /\ main = "join_next"
    /\ acceptors[t] = "select"
    /\ inflight' = [inflight EXCEPT ![t] = @ + 1]
    /\ acceptors' = [acceptors EXCEPT ![t] = "acquire"]
    /\ UNCHANGED <<limit_connections, shutdown_signal, abortedHandlers, join_set,
                   signals, main, capAtCancel, notServer>>

\* select!: accept() returned an error; continue drops the permit
AcceptError(t) ==
    /\ main = "join_next"
    /\ acceptors[t] = "select"
    /\ limit_connections' = limit_connections + 1
    /\ acceptors' = [acceptors EXCEPT ![t] = "acquire"]
    /\ UNCHANGED <<shutdown_signal, inflight, abortedHandlers, join_set, signals,
                   main, capAtCancel, notServer>>

\* a handler task ends: handler.run returned (reply sent or error logged),
\* drop(permit)
HandlerFinish(t) ==
    /\ main = "join_next"
    /\ inflight[t] > 0
    /\ inflight' = [inflight EXCEPT ![t] = @ - 1]
    /\ limit_connections' = limit_connections + 1
    /\ UNCHANGED <<shutdown_signal, acceptors, abortedHandlers, join_set, signals,
                   main, capAtCancel, notServer>>

\* the permits an acceptor's end gives back: its own while in select!, and
\* those of the handler tasks its JoinSet aborts when it is dropped
PermitsDropped(t) == (IF acceptors[t] = "select" THEN 1 ELSE 0) + inflight[t]

\* select!: shutdown_signal.cancelled() won; break, is_cancelled(), Ok(()).
\* run() returns and its JoinSet is dropped with the handler tasks in it
ObserveCancel(t) ==
    /\ main = "join_next"
    /\ acceptors[t] = "select"
    /\ shutdown_signal
    /\ acceptors' = [acceptors EXCEPT ![t] = "exited"]
    /\ limit_connections' = limit_connections + PermitsDropped(t)
    /\ abortedHandlers' = abortedHandlers + inflight[t]
    /\ inflight' = [inflight EXCEPT ![t] = 0]
    /\ join_set' = join_set \cup {t}
    /\ UNCHANGED <<shutdown_signal, signals, main, capAtCancel, notServer>>

\* both acceptors wait for a permit while the handlers hold every permit
AtCap == (\A t \in Transports : acceptors[t] = "acquire") /\ limit_connections = 0

\* the ctrl_c task: signal::ctrl_c() returned, cancel(), Ok(())
CtrlC ==
    /\ main = "join_next"
    /\ CTRL_C \notin join_set
    /\ shutdown_signal' = TRUE
    /\ join_set' = join_set \cup {CTRL_C}
    /\ capAtCancel' = IF shutdown_signal THEN capAtCancel ELSE AtCap
    /\ UNCHANGED <<limit_connections, acceptors, inflight, abortedHandlers, signals,
                   main, notServer>>

\* the signal task registers its three signals; a failure ends it with Err
SignalsRegister(ok) ==
    /\ main = "join_next"
    /\ signals = "register"
    /\ signals' = IF ok THEN "loop" ELSE "failed"
    /\ join_set' = IF ok THEN join_set ELSE join_set \cup {SIGNALS}
    /\ UNCHANGED <<limit_connections, shutdown_signal, acceptors, inflight,
                   abortedHandlers, main, capAtCancel, notServer>>

\* the signal task: sigterm.recv() returned, cancel(), and the loop goes on
SigTerm ==
    /\ main = "join_next"
    /\ signals = "loop"
    /\ shutdown_signal' = TRUE
    /\ capAtCancel' = IF shutdown_signal THEN capAtCancel ELSE AtCap
    /\ UNCHANGED <<limit_connections, acceptors, inflight, abortedHandlers, join_set,
                   signals, main, notServer>>

\* a return that leaves the tasks of the set running
LeaveRunning ==
    UNCHANGED <<acceptors, limit_connections, abortedHandlers, inflight, signals, join_set>>

\* JoinSet::shutdown, and the drop of the JoinSet when run_until_done
\* returns: every task still in the set is aborted, and with an acceptor the
\* handler tasks of its JoinSet
AbortAll ==
    /\ acceptors' = [t \in Transports |->
            IF acceptors[t] = "exited" THEN "exited" ELSE "aborted"]
    /\ limit_connections' =
            limit_connections + PermitsDropped("udp") + PermitsDropped("tcp")
    /\ abortedHandlers' = abortedHandlers + inflight["udp"] + inflight["tcp"]
    /\ inflight' = [t \in Transports |-> 0]
    /\ signals' = IF signals = "failed" THEN "failed" ELSE "aborted"
    /\ join_set' = {}

\* run_until_done: join_next returned the result of task r; cancelled, it
\* shuts the set down and returns Ok; else an Err result is returned
Join(r) ==
    /\ main = "join_next"
    /\ r \in join_set
    /\ AbortAll
    /\ main' = IF shutdown_signal THEN "Ok"
               ELSE IF r = SIGNALS THEN "Err" ELSE "Ok"
    /\ UNCHANGED <<shutdown_signal, capAtCancel, notServer>>

ServerSteps ==
    \/ \E t \in Transports : Acquire(t)
    \/ \E t \in Transports : Accept(t)
    \/ \E t \in Transports : AcceptError(t)
    \/ \E t \in Transports : HandlerFinish(t)
    \/ \E t \in Transports : ObserveCancel(t)
    \/ CtrlC
    \/ \E ok \in BOOLEAN : SignalsRegister(ok)
    \/ SigTerm
    \/ \E r \in {"udp", "tcp", CTRL_C, SIGNALS} : Join(r)

\* run_until_done has spawned its four tasks
AcceptorsInit ==
    /\ limit_connections = MAX_CONNECTIONS
    /\ shutdown_signal = FALSE
    /\ acceptors = [t \in Transports |-> "acquire"]
    /\ inflight = [t \in Transports |-> 0]
    /\ abortedHandlers = 0
    /\ join_set = {}
    /\ signals = "register"
    /\ main = "join_next"
    /\ capAtCancel = FALSE

\* the components of later sections at rest
LaterIdle == HostsIdle /\ UpIdle /\ TcpInit /\ PingInit /\ PoolIdle /\ HttpInit /\ IcmpInit /\ PermitInit /\ StageInit /\ LogsInit

RestIdle == AcceptorsInit /\ GroupIdle /\ SharedIdle /\ LaterIdle

\* the configuration the handlers run under
HandlerConfig ==
    [ipv6_resolution |->
        [g \in Groups |->
            IF g = DEFAULT_GROUP
            THEN <<Rule("Country", "US", PayloadDomain("*.example.com")),
                   Rule("Deny", None, PayloadAll)>>
            ELSE <<Rule("Pingable", None, PayloadDomain(".example.com"))>>],
     mmdb |-> "mmdb"]

HandlersIdle == handlers = [h \in Handlers |-> Idle]

\* run_until_done: Cache::with_capacity(cache_size), no request read yet
ServerInit ==
    /\ cache = <<>>
    /\ capacity \in {0, MaxCapacity}
    /\ now = 0
    /\ last = NoOp
    /\ ret = None
    /\ recent = <<>>
    /\ HandlersIdle
    /\ FilterAtRest(HandlerConfig)
    /\ RestIdle

\* a Handler built over a cache its caller has filled through Inner::put
SeededCaches(cap) ==
    IF cap = 0 THEN {<<>>}
    ELSE {<<>>} \cup {<<Entry("example.com.", <<r>>)>> : r \in Records}

HandlerInit ==
    /\ capacity \in 0..MaxCapacity
    /\ cache \in SeededCaches(capacity)
    /\ now \in 0..MaxNow
    /\ last = NoOp
    /\ ret = None
    /\ recent = <<>>
    /\ HandlersIdle
    /\ FilterAtRest(HandlerConfig)
    /\ RestIdle

Spec == ServerInit /\ [][HandlerNext]_vars
SpecHandler == HandlerInit /\ [][HandlerSteps]_vars

SpecCacheInit == CacheInit /\ FilterIdle /\ HandlersIdle /\ RestIdle
SpecCache == SpecCacheInit /\ [][CacheNext]_vars

SpecRulesInit == RulesInit /\ CacheIdle /\ HandlersIdle /\ RestIdle
SpecFilterInit == FilterInit /\ CacheIdle /\ HandlersIdle /\ RestIdle
SpecFailureInit == FailureInit /\ CacheIdle /\ HandlersIdle /\ RestIdle
SpecFailure == SpecFailureInit /\ [][FilterNext]_vars
SpecServerInit == AcceptorsInit /\ CacheIdle /\ FilterIdle /\ HandlersIdle /\ GroupIdle /\ SharedIdle /\ LaterIdle
SpecServer == SpecServerInit /\ [][ServerSteps]_vars

\* the runtime polls a task that can run; select! takes a branch that is
\* ready again and again
ServerFairness ==
    /\ WF_vars(\E r \in {"udp", "tcp", CTRL_C, SIGNALS} : Join(r))
    /\ \A t \in Transports : WF_vars(HandlerFinish(t))
    /\ \A t \in Transports : WF_vars(Acquire(t))
    /\ \A t \in Transports : SF_vars(ObserveCancel(t))
SpecServerLive == SpecServerInit /\ [][ServerSteps]_vars /\ ServerFairness
SpecGroupsInit == GroupInit /\ CacheIdle /\ FilterIdle /\ HandlersIdle /\ AcceptorsInit /\ SharedIdle /\ LaterIdle
SpecReloadInit ==
    /\ build \in {"debug", "release"}
    /\ groupLine = SingleText(V4(0)) /\ client = V4(0) /\ attributed = None
    /\ SharedInit
    /\ CacheIdle /\ FilterIdle /\ HandlersIdle /\ AcceptorsInit /\ LaterIdle
EarlierIdle ==
    CacheIdle /\ FilterIdle /\ HandlersIdle /\ AcceptorsInit /\ GroupIdle /\ SharedIdle
SpecHostsInit == HostsInit /\ UpIdle /\ TcpInit /\ PingInit /\ PoolIdle /\ HttpInit /\ IcmpInit /\ PermitInit /\ StageInit /\ LogsInit /\ EarlierIdle
SpecUpInit == UpInit /\ HostsIdle /\ TcpInit /\ PingInit /\ PoolIdle /\ HttpInit /\ IcmpInit /\ PermitInit /\ StageInit /\ LogsInit /\ EarlierIdle
SpecTcpInit == TcpInit /\ HostsIdle /\ UpIdle /\ PingInit /\ PoolIdle /\ HttpInit /\ IcmpInit /\ PermitInit /\ StageInit /\ LogsInit /\ EarlierIdle
SpecPingInit == PingInit /\ HostsIdle /\ UpIdle /\ TcpInit /\ PoolIdle /\ HttpInit /\ IcmpInit /\ PermitInit /\ StageInit /\ LogsInit /\ EarlierIdle
SpecPing == SpecPingInit /\ [][PingNext]_vars
SpecPoolInit == PoolInit /\ HostsIdle /\ UpIdle /\ TcpInit /\ PingInit /\ HttpInit /\ IcmpInit /\ PermitInit /\ StageInit /\ LogsInit /\ EarlierIdle
SpecPool == SpecPoolInit /\ [][PoolNext]_vars
SpecProbeInit == ProbeInit /\ HostsIdle /\ UpIdle /\ TcpInit /\ PingInit /\ HttpInit /\ IcmpInit /\ PermitInit /\ StageInit /\ LogsInit /\ EarlierIdle
SpecProbe == SpecProbeInit /\ [][PoolNext]_vars
SpecHttpInit == HttpInit /\ HostsIdle /\ UpIdle /\ TcpInit /\ PingInit /\ PoolIdle /\ IcmpInit /\ PermitInit /\ StageInit /\ LogsInit /\ EarlierIdle
SpecHttp == SpecHttpInit /\ [][HttpParseNext]_vars
SpecSeqInit == IcmpInit /\ HostsIdle /\ UpIdle /\ TcpInit /\ PingInit /\ PoolIdle /\ HttpInit /\ PermitInit /\ StageInit /\ LogsInit /\ EarlierIdle
SpecSeq == SpecSeqInit /\ [][SeqNext]_vars
SpecIcmpInit == IcmpInit /\ HostsIdle /\ UpIdle /\ TcpInit /\ PingInit /\ PoolIdle /\ HttpInit /\ PermitInit /\ StageInit /\ LogsInit /\ EarlierIdle
SpecIcmp == SpecIcmpInit /\ [][IcmpNext]_vars
SpecPermitInit == PermitInit /\ HostsIdle /\ UpIdle /\ TcpInit /\ PingInit /\ PoolIdle /\ HttpInit /\ IcmpInit /\ StageInit /\ LogsInit /\ EarlierIdle
SpecPermit == SpecPermitInit /\ [][PermitNext]_vars
SpecStageInit == StageInit /\ HostsIdle /\ UpIdle /\ TcpInit /\ PingInit /\ PoolIdle /\ HttpInit /\ IcmpInit /\ PermitInit /\ LogsInit /\ EarlierIdle
SpecStage == SpecStageInit /\ [][StageNext]_vars
SpecLogsInit == LogsInit /\ HostsIdle /\ UpIdle /\ TcpInit /\ PingInit /\ PoolIdle /\ HttpInit /\ IcmpInit /\ PermitInit /\ StageInit /\ EarlierIdle
SpecLogs == SpecLogsInit /\ [][LogsNext]_vars
SpecTcp == SpecTcpInit /\ [][TcpNext]_vars
SpecUp == SpecUpInit /\ [][UpNext]_vars
SpecHosts == SpecHostsInit /\ [][HostsNext]_vars
SpecReload == SpecReloadInit /\ [][SharedNext]_vars
SpecGroups == SpecGroupsInit /\ [][GroupNext]_vars
SpecRules == SpecRulesInit /\ [][FilterNext]_vars
SpecFilter == SpecFilterInit /\ [][FilterNext]_vars

(***************************************************************************)
(* Claims about the pipeline of Handler::handle: C1 under SpecHandler, one  *)
(* handler over a filled cache; C2, C3 and C4 under Spec, the server.      *)
(***************************************************************************)
InSeq(x, s) == \E i \in 1..Len(s) : s[i] = x

\* a record whose stored expiry lies in the future
NotExpired(rr, t) == rr.ttl > t

StageOrder == <<"hosts", "cache", "forward">>

IsPrefix(s, t) == Len(s) <= Len(t) /\ \A i \in 1..Len(s) : s[i] = t[i]

\* the handler has sent, or is about to send, the answers of stage s
SendsFrom(hr, s, letter) ==
    /\ hr.stage = letter
    /\ hr.res = hr.yield[s]
    /\ hr.pc \in {"send", "done", "error"}
    /\ hr.pc = "done" => hr.sent = 1
    /\ hr.pc = "error" => hr.err = "send"

\* C1: the stages run in the order hosts, cache, forward; the first stage that
\* yields a non-empty answer list sends the response and stops: after a hosts
\* answer neither cache nor upstream is consulted, after a cache answer the
\* upstream is not contacted, and the upstream is contacted only after both
\* earlier stages yielded nothing.
C1_StagesInOrder ==
    \A h \in Handlers :
        LET hr == handlers[h]
        IN  /\ IsPrefix(hr.consulted, StageOrder)
            /\ hr.yield["hosts"] # <<>> =>
                    hr.consulted = <<"hosts">> /\ SendsFrom(hr, "hosts", "L")
            /\ hr.yield["cache"] # <<>> =>
                    hr.consulted = <<"hosts", "cache">> /\ SendsFrom(hr, "cache", "C")
            /\ Len(hr.consulted) >= 2 => hr.yield["hosts"] = <<>>
            /\ Len(hr.consulted) = 3 => hr.yield["cache"] = <<>>
            /\ hr.stage = "F" => hr.consulted = StageOrder
            /\ hr.sent > 0 => hr.stage \in {"L", "C", "F"}

\* C1 witness: a request was answered by the cache stage and its response
\* sent, after the hosts stage yielded nothing and without a forward.
C1_Witness ==
    /\ handlers[1].pc = "done"
    /\ handlers[1].sent = 1
    /\ handlers[1].stage = "C"
    /\ handlers[1].yield["hosts"] = <<>>
    /\ handlers[1].yield["cache"] # <<>>
    /\ handlers[1].consulted = <<"hosts", "cache">>

\* C2: reply_fn is invoked at most once per request, and not at all when the
\* request does not parse, when the forward fails or times out, or when the
\* upstream reply does not parse; whatever is sent is the answer of a stage.
C2_ReplyAtMostOnce ==
    \A h \in Handlers :
        LET hr == handlers[h]
        IN  /\ hr.sent <= 1
            /\ hr.err \in {"parse", "forward", "timeout", "reply_parse"} => hr.sent = 0
            /\ hr.sent = 1 =>
                    /\ hr.stage \in {"L", "C", "F"}
                    /\ hr.err \in {None, "send"}
                    /\ hr.pc \in {"done", "error"}

\* C2 witness: one request was dropped after its forward timed out, with no
\* reply, and another was answered with exactly one reply.
C2_Witness ==
    \E h1, h2 \in Handlers :
        /\ handlers[h1].pc = "error"
        /\ handlers[h1].err = "timeout"
        /\ handlers[h1].consulted = StageOrder
        /\ handlers[h1].sent = 0
        /\ handlers[h2].pc = "done"
        /\ handlers[h2].sent = 1

\* C3: for a request that reaches the forward stage and whose upstream reply
\* parses, caching the reply changes nothing and the handler then invokes
\* reply_fn exactly once with the reply, with the cache disabled and enabled.
C3_ForwardedReplyIsSent ==
    \A h \in Handlers :
        handlers[h].upstream # <<>> =>
            /\ handlers[h].pc # "panicked"
            /\ handlers[h].pc \in {"done", "error"} =>
                    handlers[h].sent = 1 /\ handlers[h].stage = "F"

\* the forwarded reply of handler h answers its only query, an A query, with
\* a record whose TTL has not elapsed
AnsweredWithFreshA(h) ==
    /\ h \in Answered
    /\ Len(handlers[h].bytes.recs) = 1
    /\ handlers[h].bytes.recs[1].qtype = "A"
    /\ \E i \in 1..Len(from_bytes(handlers[h].upstream[1])) :
          LET rec == from_bytes(handlers[h].upstream[1])[i]
          IN  /\ rec.name = handlers[h].bytes.recs[1].name
              /\ rec.rtype = "A"
              /\ NotExpired(rec, now)

\* C4: with the cache enabled, once a forwarded A query has been answered by
\* the upstream with a record, an identical query that arrives before the TTL
\* of the record elapses is answered by the cache stage and never forwarded.
C4_SecondQueryFromCache ==
    \A h2 \in Handlers :
        (enabled /\ \E h1 \in handlers[h2].after : AnsweredWithFreshA(h1)) =>
            /\ "forward" \notin {handlers[h2].consulted[i] :
                                    i \in 1..Len(handlers[h2].consulted)}
            /\ handlers[h2].pc \in {"done", "error"} => handlers[h2].stage = "C"

(***************************************************************************)
(* Claims about the RR cache, checked under SpecCache.                     *)
(***************************************************************************)
\* C5: immediately after put(domain, [r]) with a record r of type t that has
\* not expired, get(domain, t) returns a list containing r.
C5_GetAfterPut ==
    [][(/\ last.op = "put"
        /\ Len(last.rrs) = 1
        /\ NotExpired(last.rrs[1], now)
        /\ last'.op = "get"
        /\ last'.domain = last.domain
        /\ last'.rtype = last.rrs[1].rtype)
       => (ret' # None /\ InSeq(last.rrs[1], ret'))]_vars

\* C6: get never returns a record whose expiry is <= now; after the pruning
\* done by get the key holds no record whose expiry is <= now.
C6_GetNeverReturnsExpired ==
    last.op = "get" =>
        /\ ret # None => \A i \in 1..Len(ret) : NotExpired(ret[i], now)
        /\ LruContains(cache, last.domain) =>
              \A i \in 1..Len(LruVal(cache, last.domain)) :
                  NotExpired(LruVal(cache, last.domain)[i], now)

\* C7: no key of the cache is mapped to an empty record list.
C7_NoEmptyKey == \A i \in 1..Len(cache) : cache[i].val # <<>>

\* the position of key k in the history of uses
Pos(r, k) == CHOOSE i \in 1..Len(r) : r[i] = k

\* the key of c whose last use (put, or get while present) is the oldest
LeastRecentlyUsed(c, r) ==
    CHOOSE k \in Keys(c) : \A k2 \in Keys(c) : Pos(r, k2) <= Pos(r, k)

\* C8: the cache never holds more keys than its capacity, and a put of an
\* absent key into a full cache evicts exactly the least recently used key,
\* where every put and every get of a present key counts as a use.
C8_EvictsLeastRecentlyUsed ==
    /\ [](Len(cache) <= capacity /\ Cardinality(Keys(cache)) = Len(cache))
    /\ [][(/\ last'.op = "put"
            /\ last'.domain \notin Keys(cache)
            /\ Len(cache) = capacity)
           => Keys(cache') = (Keys(cache) \ {LeastRecentlyUsed(cache, recent)})
                                \cup {last'.domain}]_vars

\* C8 witness: a put has just evicted a key from a full cache of two keys,
\* and the evicted key is the one used longest ago.
C8_Witness ==
    /\ last.op = "put"
    /\ capacity = 2
    /\ Len(cache) = 2
    /\ Len(recent) = 3
    /\ recent[1] = last.domain
    /\ recent[3] \notin Keys(cache)

(***************************************************************************)
(* Claims about the AAAA rules, checked under SpecRules, and about the     *)
(* post-filter, checked under SpecFilter.                                  *)
(***************************************************************************)
\* the rule list the claim names: the group's rules, then the default rules
GroupThenDefault == config.ipv6_resolution[group] \o config.ipv6_resolution[DEFAULT_GROUP]

\* the rules of GroupThenDefault whose payload matches the name of answer i
Matching(i) ==
    {j \in 1..Len(GroupThenDefault) :
        payload_match(GroupThenDefault[j], NameLabels(original[i].name))}

FirstMatching(i) == CHOOSE j \in Matching(i) : \A k \in Matching(i) : j <= k

\* the decision of a rule's directive on the address of answer i
DirectiveDecision(rule, i) ==
    CASE rule.directive = "Allow" -> TRUE
      [] rule.directive = "Deny" -> FALSE
      [] rule.directive = "Country" -> CountryIso(original[i].addr) = rule.country
      [] rule.directive = "Pingable" -> Unwrap(pingCache[original[i].addr])

\* C9: is_allow_ipv6 returns the decision of the directive of the first rule,
\* in the group's list followed by the default list, whose payload matches
\* the domain; no later rule is evaluated; with no matching rule it allows.
C9_FirstMatchDecides ==
    \A i \in 1..Len(tasks) :
        (original[i].rtype = "AAAA" /\ tasks[i].pc \in {"pinging", "done"}) =>
            IF Matching(i) = {}
            THEN /\ tasks[i].pc = "done"
                 /\ tasks[i].res = TRUE
                 /\ tasks[i].checked = <<>>
                 /\ tasks[i].visited = [j \in 1..Len(GroupThenDefault) |-> j]
            ELSE /\ tasks[i].checked = <<FirstMatching(i)>>
                 /\ tasks[i].visited = [j \in 1..FirstMatching(i) |-> j]
                 /\ tasks[i].pc = "done" =>
                        tasks[i].res =
                            DirectiveDecision(GroupThenDefault[FirstMatching(i)], i)

\* C9 witness: a call for group office has been decided by a rule of the
\* default list that allows, though a later rule that matches would deny.
C9_Witness ==
    /\ group = "office"
    /\ Len(tasks) = 1
    /\ tasks[1].pc = "done"
    /\ tasks[1].res = TRUE
    /\ Len(tasks[1].checked) = 1
    /\ tasks[1].checked[1] > Len(config.ipv6_resolution[group])
    /\ tasks[1].checked[1] > 1
    /\ \E k \in Matching(1) :
          k > tasks[1].checked[1] /\ GroupThenDefault[k].directive = "Deny"

\* the answers the claim says are kept: every answer that is not AAAA, and
\* the AAAA answers whose check returned allow
Kept ==
    {i \in 1..Len(original) :
        original[i].rtype # "AAAA" \/ (tasks[i].pc = "done" /\ tasks[i].res)}

\* the k-th kept answer, in the original order
NthKept(k) == CHOOSE i \in Kept : Cardinality({j \in Kept : j < i}) = k - 1

\* C10: after the post-filter the answers are the kept answers, in their
\* original relative order, whatever order the tasks finished in.
C10_FilterKeepsOrder ==
    rpc = "done" =>
        /\ Len(answers) = Cardinality(Kept)
        /\ \A k \in 1..Len(answers) : answers[k] = original[NthKept(k)]

\* C10 witness: of two AAAA answers the second task finished first; the
\* first answer was denied and the second allowed and kept.
C10_Witness ==
    /\ rpc = "done"
    /\ Len(original) = 2
    /\ original[1].rtype = "AAAA"
    /\ original[2].rtype = "AAAA"
    /\ completed = <<2, 1>>
    /\ ~tasks[1].res
    /\ tasks[2].res
    /\ answers = <<original[2]>>

\* the check task of answer i failed: it panicked (a Country rule and no
\* GeoIP reader), or its probe reported a failure
Failed(i) ==
    \/ tasks[i].pc = "panicked"
    \/ /\ tasks[i].pc = "done"
       /\ tasks[i].checked # <<>>
       /\ GroupThenDefault[tasks[i].checked[1]].directive = "Pingable"
       /\ ~tasks[i].verdict

\* the decision answer i is owed by the rules alone: no AAAA data, no rule
\* matching its name, or the directive of the first matching rule
OwnDecision(i) ==
    IF original[i].rtype # "AAAA" \/ Matching(i) = {} THEN TRUE
    ELSE LET rule == GroupThenDefault[FirstMatching(i)]
         IN  CASE rule.directive = "Allow" -> TRUE
               [] rule.directive = "Deny" -> FALSE
               [] rule.directive = "Country" -> CountryIso(original[i].addr) = rule.country
               [] rule.directive = "Pingable" -> tasks[i].verdict

\* the answers that survive: not failed, and allowed by their own decision
Survivors == {i \in 1..Len(original) : ~Failed(i) /\ OwnDecision(i)}

NthSurvivor(k) == CHOOSE i \in Survivors : Cardinality({j \in Survivors : j < i}) = k - 1

SentUnfiltered(h) ==
    /\ handlers[h].sent = 1
    /\ handlers[h].stage = "F"
    /\ handlers[h].res = from_bytes(handlers[h].upstream[1])

InFlight == inflight["udp"] + inflight["tcp"]

\* the acceptors that hold a permit while they read or accept
Reading == {t \in Transports : acceptors[t] = "select"}

\* C13: the handler tasks in flight, UDP and TCP together, never exceed the
\* permits of the semaphore; every handler in flight and every acceptor that
\* reads or accepts holds one permit; with every permit held by a handler
\* neither acceptor reads or accepts.
C13_InFlightWithinPermits ==
    /\ InFlight <= MAX_CONNECTIONS
    /\ limit_connections + InFlight + Cardinality(Reading) = MAX_CONNECTIONS
    /\ InFlight = MAX_CONNECTIONS => Reading = {}

\* C13 witness: handlers of both transports hold every permit and both
\* acceptors wait for one.
C13_Witness ==
    /\ AtCap
    /\ inflight["udp"] > 0
    /\ inflight["tcp"] > 0
    /\ InFlight = MAX_CONNECTIONS

\* C14: no handler task in flight is aborted by the shutdown: each runs
\* until Handler::run returns.
C14_NoHandlerAborted == abortedHandlers = 0

Published == {a \in Addresses : heap[a].state # "unallocated"}

\* C16: under every interleaving of access() with reload(), the snapshot
\* a reader has loaded the pointer of, or holds, has not been freed.
C16_AccessNeverTouchesFreed ==
    \A r \in Readers :
        readers[r].pc \in {"loaded", "holding"} =>
            /\ heap[readers[r].ptr].state = "live"
            /\ ~readers[r].dangling

\* the last reload() did not get to the swap
ReloadFailed == reloader.result \in {"Err", "Panic"}

\* the published pointer and snapshot are those from before the last
\* reload(), and an access() begun since then got that snapshot
SnapshotKept ==
    /\ ptr = reloader.before
    /\ heap[ptr].state = "live"
    /\ \A r \in Readers :
          (readers[r].fresh /\ readers[r].pc # "idle") =>
              readers[r].ptr = reloader.before /\ ~readers[r].dangling

C18_DefaultServerAlways ==
    \A a \in Published :
        /\ DEFAULT_GROUP \in DOMAIN heap[a].inner.servers
        /\ \A g \in GroupNames :
              /\ ServersGet(heap[a].inner, g) # <<>>
              /\ Len(ServersGet(heap[a].inner, g)[1]) >= 1

\* a reader holds the published snapshot, which has no servers for office,
\* after a snapshot that had
C18_Witness ==
    /\ \E r \in Readers : readers[r].pc = "holding" /\ readers[r].ptr = ptr
    /\ "office" \notin DOMAIN heap[ptr].inner.servers
    /\ \E a \in Published : "office" \in DOMAIN heap[a].inner.servers

\* C19: two snapshots loaded from the same file content attribute every
\* address to the same group and give the same servers for every group.
C19_ReloadIdempotent ==
    \A a, b \in Published :
        heap[a].inner.src = heap[b].inner.src =>
            /\ \A addr \in IpAddrs :
                  attribute_group(heap[a].inner.groups, heap[a].inner.order, addr)
                      = attribute_group(heap[b].inner.groups, heap[b].inner.order, addr)
            /\ \A g \in GroupNames :
                  ServersGet(heap[a].inner, g) = ServersGet(heap[b].inner, g)

\* what the specification counts as contained in a range: for a-b every
\* address from a to b inclusive, for ip/prefix every address that shares
\* the first prefix bits with ip, IPv4 addresses taken in their mapped form
FirstOf(text) ==
    LET w == IF text.start.fam = "V4" THEN V4Bits ELSE V6Bits
    IN  text.start.val - (text.start.val % Pow2(w - text.prefix))

LastOf(text) ==
    LET w == IF text.start.fam = "V4" THEN V4Bits ELSE V6Bits
    IN  FirstOf(text) + Pow2(w - text.prefix) - 1

Includes(text, addr) ==
    LET a == to_ipv6_mapped(addr).val
        base == IF text.start.fam = "V4" THEN MappedBase ELSE 0
    IN  CASE text.form = "range" ->
                /\ to_ipv6_mapped(text.start).val <= a
                /\ a <= to_ipv6_mapped(text.end).val
          [] text.form = "cidr" ->
                /\ base + FirstOf(text) <= a
                /\ a <= base + LastOf(text)
          [] OTHER -> a = to_ipv6_mapped(text.start).val

WellFormed(text) ==
    text.form = "cidr" =>
        text.prefix <= (IF text.start.fam = "V4" THEN V4Bits ELSE V6Bits)

\* C20: for a well-formed range of the group office, attribute_group gives
\* office when the range contains the client, first and last address
\* included, and default exactly when it does not.
C20_AttributedIffContained ==
    (attributed # None /\ WellFormed(groupLine)) =>
        /\ attributed \in {"office", DEFAULT_GROUP}
        /\ (attributed = "office") <=> Includes(groupLine, client)


\* the entries the specification has the hosts stage answer a query from:
\* those of the group's table, then those of the default table
EntriesOf(g) == IF g = DEFAULT_GROUP THEN HostsTable(g) ELSE ChainedHosts(g)

\* the entries of that name and family, in table order
MatchingEntries(g, name, family) ==
    SelectSeq(EntriesOf(g), LAMBDA e : e.name = name /\ e.family = family)

\* C21: for an A query the hosts stage gives one A record per IPv4 entry of
\* the queried name, group table first and default table after, whatever
\* IPv6 entries the name has; likewise AAAA records for an AAAA query.
C21_OneRecordPerMatchingEntry ==
    (lookup.out # <<>> /\ lookup.queries[1].qtype \in {"A", "AAAA"}) =>
        LET q == lookup.queries[1]
            family == IF q.qtype = "A" THEN "V4" ELSE "V6"
            want == MatchingEntries(lookup.group, q.name, family)
            got == lookup.out[1].answers
        IN  /\ Len(got) = Len(want)
            /\ \A k \in 1..Len(got) :
                  got[k].rtype = q.qtype /\ got[k].addr = want[k].addr

\* C22: every record the hosts stage emits, A, AAAA or PTR, has TTL 1.
C22_HostsRecordsHaveTtlOne ==
    lookup.out # <<>> =>
        \A k \in 1..Len(lookup.out[1].answers) : lookup.out[1].answers[k].ttl = 1

\* a PTR name with fewer than 4 octets before .in-addr.arpa., or with
\* neither suffix
Unrecognised(name) ==
    \/ Decompose(name).suffix = None
    \/ Decompose(name).suffix = "in-addr" /\ Len(Decompose(name).labels) < 4

\* C23: a PTR query of such a name is ignored: the stage ends without
\* failure and without an answer for it.
C23_UnrecognisedPtrIgnored ==
    (/\ lookup.out # <<>>
     /\ lookup.queries[1].qtype = "PTR"
     /\ Unrecognised(lookup.queries[1].name)) =>
        lookup.out[1].kind = "Ok" /\ lookup.out[1].answers = <<>>

\* C24: a failure of the upstream, on whichever transport and at whichever
\* step, ends the forward with an error and leaves the process running.
C24_UpstreamFailureIsLocal == ~exited

\* what a server text configures: its host, its port and its path
ServerHost == IF IndexOf(server, "://", 1) # 0 THEN server[3] ELSE server[1]
ServerPort == IF IndexOf(server, ":", 1) # 0 THEN <<server[IndexOf(server, ":", 1) + 1]>> ELSE <<>>
ServerPath == SelectSeq(server, LAMBDA t : t \in PathTokens)

\* C25: resolve() builds the transport the scheme of the server text names
\* and aims it at the configured host, at the given port or the default
\* one: DoT and 853 for tls://, DoH for https://, UDP and 53 otherwise.
C25_ResolveReachesConfigured ==
    (conn.entry = "resolve" /\ conn.pc # "start") =>
        /\ conn.dial # <<>>
        /\ conn.dial[1].host = ServerHost
        /\ conn.dial[1].transport =
              IF starts_with(server, "tls") THEN "DoT"
              ELSE IF starts_with(server, "https") THEN "DoH" ELSE "UDP"
        /\ conn.dial[1].port =
              IF ServerPort # <<>> THEN ServerPort[1]
              ELSE IF starts_with(server, "tls") THEN "853"
              ELSE IF starts_with(server, "https") THEN "443" ELSE "53"

\* C26: the path a DoH request asks for is /dns-query when the server text
\* has no path, and the path of the server text, unchanged, when it has one.
C26_DnsQueryAppendedIffNoPath ==
    (conn.entry = "resolve" /\ conn.transport = "DoH" /\ conn.dial # <<>>) =>
        conn.dial[1].path = IF ServerPath = <<>> THEN <<"/dns-query">> ELSE ServerPath

PayloadName(p) ==
    LowerName(IF is_wildcard(FromAscii(p)) THEN base_name(FromAscii(p)) ELSE FromAscii(p))

\* the name n is the domain d or below it, letters compared as DNS compares
\* them, without their case
IsUnder(d, n) ==
    /\ Len(d) <= Len(n)
    /\ \A k \in 0..(Len(d) - 1) : LowerLabel(n[Len(n) - k]) = d[Len(d) - k]

\* payload_match returned true for rule j in the check of answer i
Matched(i, j) == tasks[i].checked = <<j>>

\* the rules payload_match was called on in the check of answer i
Tried(i) ==
    IF tasks[i].pc = "spawned" THEN {}
    ELSE {tasks[i].visited[k] : k \in 1..Len(tasks[i].visited)}

\* C28: a payload ALL matches every name; a payload .d matches d and every
\* name below d, at any depth; a payload *.d matches every name strictly
\* below d, at any depth, and not d.
C28_PayloadFormsMatch ==
    \A i \in 1..Len(tasks) : \A j \in Tried(i) :
        LET payload == GroupThenDefault[j].payload
            n == NameLabels(original[i].name)
        IN  /\ payload.kind = "All" => Matched(i, j)
            /\ (payload.kind = "Domain" /\ StartsWithDot(payload.text)) =>
                   (Matched(i, j) <=> IsUnder(PayloadName(payload.text), n))
            /\ (payload.kind = "Domain" /\ payload.text = "*.example.com") =>
                   (Matched(i, j) <=>
                        /\ IsUnder(PayloadName(payload.text), n)
                        /\ Len(n) > Len(PayloadName(payload.text)))

\* C29: a payload that is a domain, with neither a leading dot nor a
\* leading *., matches the names equal to it, letters compared without
\* their case, and no other name.
C29_ExactMatchIgnoresCase ==
    \A i \in 1..Len(tasks) : \A j \in Tried(i) :
        LET payload == GroupThenDefault[j].payload
            n == NameLabels(original[i].name)
        IN  (payload.kind = "Domain" /\ payload.text = "example.com") =>
                (Matched(i, j) <=> LowerName(n) = PayloadName(payload.text))

(***************************************************************************)
(* Claims about the ping cache, checked under SpecPing.                    *)
(***************************************************************************)
\* C30: a call for a Pingable rule looks in the ping cache before anything
\* else and probes only when the address is not there; when the cache holds
\* a verdict for the address the call returns that verdict without a probe;
\* and no call holds the lock of the cache while its probe is in progress.
C30_CacheFirstAndLockFree ==
    \A i \in Checkers :
        /\ checkers[i].probed => (checkers[i].looked /\ checkers[i].saw = <<>>)
        /\ checkers[i].pc \in {"ping", "relock", "put"} => checkers[i].looked
        /\ (checkers[i].looked /\ checkers[i].saw # <<>>) =>
               /\ checkers[i].pc = "done"
               /\ ~checkers[i].probed
               /\ checkers[i].r = checkers[i].saw[1]
        /\ checkers[i].pc \in {"ping", "relock"} => guard # i
        /\ guard = i => checkers[i].pc \in {"look", "put"}

\* a call has returned the memoized verdict without a probe while another
\* call is probing and the verdict is still in the cache
C30_Witness ==
    \E i, j \in Checkers :
        /\ checkers[i].pc = "done"
        /\ checkers[i].saw # <<>>
        /\ ~checkers[i].probed
        /\ checkers[j].pc = "ping"
        /\ LruContains(lru, checkers[i].addr)

(***************************************************************************)
(* Claims about the pool of TLS streams, checked under SpecPool.           *)
(***************************************************************************)
\* the queues as one set of positions
Positions == {<<u, i>> : u \in Urls, i \in 1..MaxStreams}
PooledAt(s) == {p \in Positions : p[2] <= Len(live_streams[p[1]]) /\ live_streams[p[1]][p[2]] = s}
HeldBy(s) == {r \in Resolvers : dots[r].stream = s /\ streams[s].place = "held"}

\* C31: every stream in the pool has completed an exchange and is at a frame
\* boundary: the bytes read from it, those of the probe included, are whole
\* frames; and a stream on which a step failed is not in the pool.
C31_PooledStreamsAtFrameBoundary ==
    \A u \in Urls : \A i \in 1..Len(live_streams[u]) :
        /\ streams[live_streams[u][i]].exchanged
        /\ streams[live_streams[u][i]].aligned

\* C32: a stream whose probe gave a clean EOF or a transport error is
\* dropped: nothing is written to it and it is not put back into the pool.
C32_BrokenStreamDiscarded ==
    \A s \in StreamIds :
        streams[s].probe \in {"eof", "error"} =>
            /\ streams[s].place = "dropped"
            /\ ~streams[s].written
            /\ \A r \in Resolvers : dots[r].stream = s => dots[r].pc = "retake"

\* C33: the loop gives up with the error "no available stream" after exactly
\* 3 replacements of a dead pooled stream by another pooled stream.
C33_GivesUpAfterThree ==
    \A r \in Resolvers :
        /\ dots[r].err = "no available stream" => dots[r].retry_count = MaxRetry
        /\ dots[r].retry_count <= MaxRetry

\* a stream is in one queue position or with one call, never both, and in
\* the queue of its own URL
OneOwner ==
    \A s \in StreamIds :
        /\ Cardinality(PooledAt(s)) + Cardinality(HeldBy(s)) <= 1
        /\ \A p \in PooledAt(s) : streams[s].url = p[1]
        /\ \A r \in HeldBy(s) : streams[s].url = dots[r].target
        /\ streams[s].place = "pool" <=> PooledAt(s) # {}
        /\ streams[s].place = "held" <=> HeldBy(s) # {}

\* a step changes a queue only by taking its front or by adding at its back,
\* until the process ends
FrontOrBack ==
    \A u \in Urls :
        \/ live_streams'[u] = live_streams[u]
        \/ \A r \in Resolvers : dots'[r].pc = "exit"
        \/ live_streams[u] # <<>> /\ live_streams'[u] = Tail(live_streams[u])
        \/ \E r \in Resolvers :
              /\ dots[r].target = u
              /\ dots[r].stream # 0
              /\ live_streams'[u] = Append(live_streams[u], dots[r].stream)

\* C34: a stream has at most one owner at any time, the queue of its URL or
\* one call of resolve; take removes from the front and enqueue appends to
\* the back of the queue of the same URL.
C34_OneOwnerPerStream == [](OneOwner) /\ [][FrontOrBack]_vars

\* two calls hold streams of the same URL at the same time, one of them
\* taken from the pool
C34_Witness ==
    \E r1, r2 \in Resolvers :
        /\ r1 # r2
        /\ dots[r1].stream # 0 /\ dots[r2].stream # 0
        /\ dots[r1].target = dots[r2].target
        /\ dots[r1].reuse
        /\ streams[dots[r1].stream].place = "held"
        /\ streams[dots[r2].stream].place = "held"

(***************************************************************************)
(* Claims about the HTTP response parser, checked under SpecHttp.          *)
(***************************************************************************)
\* the states that may follow a state
FollowsInOrder ==
    { <<"Protocol", "Version">>, <<"Version", "StatusCode">>,
      <<"StatusCode", "StatusText">>, <<"StatusText", "HeaderName">>,
      <<"HeaderName", "HeaderValue">>, <<"HeaderValue", "HeaderName">>,
      <<"HeaderName", "Body">>, <<"Body", "Returned">> }

\* the stream holds a sequence of tokens at position i
HasAt(input, i, toks) ==
    /\ i + Len(toks) - 1 <= Len(input)
    /\ SubSeq(input, i, i + Len(toks) - 1) = toks

\* the head of the stream ends with a blank line at position i, followed
\* by n bytes of body at least
BlankLineAt(input, i) == HasAt(input, i, <<CR, LF, CR, LF>>)

\* the stream is a response as the claim wants it: the status line is
\* HTTP/1.1, the head ends with a blank line, and the bytes read after it
\* are as many as the content-length says
AsClaimed(h) ==
    /\ HasAt(h.input, 1, <<"HTTP", "/", "1.1", SP>>)
    /\ \E i \in 1..Len(h.input) :
          /\ BlankLineAt(h.input, i)
          /\ Len(h.input) - (i + 3) >= h.read
    /\ HeaderGet(h.headers, <<"content-length">>) # <<>>
    /\ ParseU16(HeaderGet(h.headers, <<"content-length">>)[1]) = <<h.read>>

\* C35: the parser passes through its states in the order Protocol, Version,
\* StatusCode, StatusText, HeaderName and HeaderValue in turn, Body; it
\* returns a response only for an HTTP/1.1 status line, a content-length
\* that parses as u16 and a body of that length read after the blank line;
\* otherwise, a stream that ends before the blank line included, an error.
C35_ParserAcceptsOnlyWholeResponses ==
    /\ \A i \in 1..(Len(http.trail) - 1) :
          \/ <<http.trail[i], http.trail[i + 1]>> \in FollowsInOrder
          \/ http.trail[i + 1] \in {"Body", "Returned"} /\ http.result # "Ok"
    /\ http.result = "Ok" => AsClaimed(http)

(***************************************************************************)
(* Claims about the sequence counter, checked under SpecSeq, and about the *)
(* probes, checked under SpecIcmp.                                         *)
(***************************************************************************)
FirstSeq == 1
LastSeq == U16_MAX - 1

\* the n-th allocation, counted from 1 and modulo the cycle, gives n: two
\* allocations less than LastSeq apart give different numbers
NthGivesN ==
    ACC_SEQ.last # <<>> =>
        /\ ACC_SEQ.last[1] \in FirstSeq..LastSeq
        /\ ACC_SEQ.last[1] = ((ACC_SEQ.issued + LastSeq - 1) % LastSeq) + 1

\* what is given out follows what was given out before
OneMore ==
    ACC_SEQ'.last # ACC_SEQ.last =>
        ACC_SEQ'.last = IF ACC_SEQ.last = <<>> THEN <<FirstSeq>>
                        ELSE IF ACC_SEQ.last = <<LastSeq>> THEN <<FirstSeq>>
                        ELSE <<ACC_SEQ.last[1] + 1>>

\* C36: acc_seq returns 1 first and then one more than before, 1 again after
\* 0xFFFE, never 0 or 0xFFFF; under every interleaving of the callers any
\* 65534 allocations in a row are pairwise different.
C36_SeqCyclesThroughAll == [](NthGivesN) /\ [][OneMore]_vars

\* the counter has wrapped while another caller waits for the lock
C36_Witness ==
    /\ ACC_SEQ.last = <<LastSeq>>
    /\ ACC_SEQ.guard = FirstSeq
    /\ \E p \in Pingers : pingers[p].pc = "acc_seq"

\* C37: a probe reports the address reachable exactly when an echo reply
\* with its id and its sequence number has arrived at its socket within the
\* timeout, whatever else has arrived there.
C37_ProbesDoNotInterfere ==
    \A p \in Pingers :
        pingers[p].pc = "done" =>
            (pingers[p].outcome = "Ok" <=> pingers[p].arrived)

(***************************************************************************)
(* Claims about the permits, checked under SpecPermit.                     *)
(***************************************************************************)
\* the acceptors that wait in accept with a permit
InAccept == {t \in Transports : runs[t].pc = "select"}

\* the permits held: one by each acceptor in accept, one by each handler task
HeldPermits(r) ==
    Cardinality({t \in Transports : r[t].pc = "select"})
        + r["udp"].spawned + r["tcp"].spawned

\* with no handler in flight every permit but those of the acceptors in
\* accept is free
AllBackWhenIdle ==
    (\A t \in Transports : runs[t].spawned = 0) =>
        semaphore.free = MAX_CONNECTIONS - Cardinality(InAccept)

\* a holder that ends gives its permit back
GivenBack ==
    HeldPermits(runs') < HeldPermits(runs) =>
        semaphore'.free - semaphore.free = HeldPermits(runs) - HeldPermits(runs')

\* C38: a permit an acceptor has acquired is released on every path: the
\* accept or read error, the shutdown, and the handler's completion, error
\* and panic; once no handler is in flight every permit but those held by
\* the acceptors that wait in accept is available.
C38_PermitReleasedOnEveryPath == [](AllBackWhenIdle) /\ [][GivenBack]_vars

\* permits have come back on every path, the panic included, and no handler
\* is in flight
C38_Witness ==
    /\ Ends \cup {"accept error", "shutdown"} \subseteq semaphore.back
    /\ \A t \in Transports : runs[t].spawned = 0
    /\ semaphore.free = MAX_CONNECTIONS - Cardinality(InAccept)

(***************************************************************************)
(* Claims about the configuration of a request, checked under SpecStage.   *)
(***************************************************************************)
\* C39: the host lookup, the choice of the server and the AAAA rules of one
\* request read the snapshot under which its group was attributed, also when
\* reload() publishes a new one while the request is in flight.
C39_OneSnapshotPerRequest ==
    \A r \in Stagers :
        \A read \in {requests[r].hosts, requests[r].server, requests[r].rules} :
            read # <<>> => read = requests[r].attributed

(***************************************************************************)
(* Claims about the logs, checked under SpecLogs.                          *)
(***************************************************************************)
\* the lines of one span are next to each other in a file
Contiguous(lines) ==
    \A i, k \in 1..Len(lines) :
        i < k /\ lines[i].span = lines[k].span =>
            \A j \in i..k : lines[j].span = lines[i].span

\* C40: the messages of a span that closes are written together, to the
\* access sink when the span saw no ERROR event and to the error sink
\* otherwise; with file sinks a writer made by create_file_writer writes to
\* the file it was made for.
C40_SpanLogsReachTheirSink ==
    \A f \in LogPaths :
        /\ Contiguous(logger.files[f])
        /\ \A i \in 1..Len(logger.files[f]) :
              LET line == logger.files[f][i]
              IN  /\ line.made_for = IF line.is_error THEN ERROR_LOG ELSE ACCESS_LOG
                  /\ line.made_for = f

====
